---- MODULE Spec2Model ----
(***************************************************************************)
(* A model of src/server.js: the WebSocket relay between robot agents      *)
(* (endpoint /robot) and operator clients (endpoint /ui).                  *)
(*                                                                         *)
(* Node runs every handler to completion on one event loop, so each        *)
(* 'connection', 'message' and 'close' handler and each setInterval        *)
(* callback is one atomic action.  The variables robots, uiClients and     *)
(* now are the program's state; sockets holds what the program reads of    *)
(* each robot WebSocket (readyState, and the handler closure's robotId).   *)
(*                                                                         *)
(* Every handler is an operator On...(input) from the current state to a   *)
(* result: the next robots, uiClients and sockets, and `sent`, the         *)
(* handler's effects (frames sent, sockets terminated, map updates) in     *)
(* program order.  The action of a handler applies its result.             *)
(***************************************************************************)
EXTENDS Integers, Sequences, FiniteSets, TLC

\* ------------------------------------------------------------------ bounds
\* The clock advances at most MaxTicks times.
MaxTicks == 2

\* ------------------------------------------------------- program constants
\* CONFIG.controlIdleTimeoutMs and CONFIG.robotTimeoutMs, in milliseconds.
controlIdleTimeoutMs == 60000
robotTimeoutMs == 60000
\* CONFIG.maxLinearVelocity (0.5 m/s) and CONFIG.maxAngularVelocity
\* (1.5 rad/s), in tenths.
maxLinearVelocity == 5
maxAngularVelocity == 15
validModes == {"idle", "slam", "nav", "localization"}
motionCommands == {"teleop", "goto_poi", "dock", "navigate"}

\* ------------------------------------------------------------- value sets
\* JavaScript null / undefined / an absent field.
NULL == "null"
\* A null timestamp.  Date.now() is never 0, and the code only tests
\* timestamps for truthiness, which null and 0 both fail.
NoTime == 0
\* The first value of Date.now(), and the step of the clock: times are
\* compared with the two timeouts only, so the clock moves in steps of one
\* timeout (differences 0 and 60000 are within it, 120000 is beyond).
StartTime == 1
ClockStep == controlIdleTimeoutMs
MaxNow == StartTime + MaxTicks * ClockStep

DefaultRobotId == "fordward"
RobotIds == {"fordward", "r2"}
RobotSockets == {"s1", "s2"}
ClientIds == {"c1", "c2"}
\* Map.forEach visits entries in insertion order; the order among the
\* recipients of one broadcast is fixed here, no claim reads it.
ClientOrder == <<"c1", "c2">>
RobotOrder == <<"fordward", "r2">>

\* `Client-${clientId}`
DefaultClientName(c) == "Client-" \o c
\* The display name an operator's UI puts in clientName when it sends one.
CustomName(c) == IF c = "c1" THEN "A" ELSE "B"

\* robot.telemetry: {} after registration, else the last payload.  Only
\* mode and pois are modelled; pois is [] wherever the code reads
\* `telemetry?.pois || []`.
NoTelemetry == [mode |-> NULL, pois |-> <<>>]
TelemetryIdle == [mode |-> "idle", pois |-> <<>>]
TelemetryNav ==
    [mode |-> "nav",
     pois |-> << [id |-> "p1", name |-> "Dock"], [id |-> NULL, name |-> "Lab"] >>]
Telemetries == {TelemetryIdle, TelemetryNav}

\* { ownerClientId: null, ownerName: null, since: null, lastCommandAt: null }
NoControl ==
    [ownerClientId |-> NULL, ownerName |-> NULL, since |-> NoTime, lastCommandAt |-> NoTime]

\* ----------------------------------------------------------------- frames
\* A JavaScript value of a numeric field: a finite number (in tenths), NaN,
\* +Infinity, -Infinity, undefined (the field is absent) or a string that
\* is no number.
Num(n) == [t |-> "num", v |-> n]
NaN == [t |-> "nan", v |-> 0]
PosInf == [t |-> "inf", v |-> 0]
NegInf == [t |-> "ninf", v |-> 0]
Undefined == [t |-> "undefined", v |-> 0]
NotANumber == [t |-> "string", v |-> 0]

\* Every frame the server sends, as one record shape; unused fields are NULL.
NoFrame ==
    [type |-> NULL, code |-> NULL, kind |-> NULL, robotId |-> NULL,
     ownerClientId |-> NULL, ownerName |-> NULL, previousOwner |-> NULL,
     reason |-> NULL, holder |-> NULL, online |-> NULL,
     telemetry |-> NoTelemetry, availablePois |-> <<>>, robots |-> {},
     command |-> NULL, linear_x |-> Undefined, angular_z |-> Undefined,
     arg |-> NULL]

\* A command payload as an operator sends it.
NoPayload ==
    [kind |-> NULL, linear_x |-> Undefined, angular_z |-> Undefined, mode |-> NULL,
     mapName |-> NULL, poiId |-> NULL]

\* A frame from a robot: message.type, message.robotId, and for telemetry
\* the payload (message.payload, or the one built from the flat fields).
RobotFrame(type, rid, t) == [type |-> type, robotId |-> rid, telemetry |-> t]

\* A frame from an operator: message.type, message.robotId,
\* message.clientName (subscribe) or message.payload.clientName (control),
\* message.payload.action (control), message.payload (command).
UIFrame(type, rid, name, action, payload) ==
    [type |-> type, robotId |-> rid, clientName |-> name, action |-> action,
     payload |-> payload]

\* Effects of a handler, in program order.
Send(to, msg) == [op |-> "send", to |-> to, msg |-> msg]
Effect(op, to) == [op |-> op, to |-> to, msg |-> NoFrame]

VARIABLES
    robots,     \* const robots = new Map(): robotId -> record
    uiClients,  \* const uiClients = new Map(): clientId -> record
    sockets,    \* robot WebSockets: readyState and the closure's robotId
    now,        \* Date.now()
    heard,      \* history: per robot socket, Date.now() at its last frame
    commanded   \* history: per robot, Date.now() at the last command
                \* frame of its current lease owner

vars == <<robots, uiClients, sockets, now, heard, commanded>>

Init ==
    /\ robots = << >>
    /\ uiClients = << >>
    /\ sockets = [s \in RobotSockets |-> [readyState |-> "CLOSED", robotId |-> NULL]]
    /\ now = StartTime
    /\ heard = [s \in RobotSockets |-> NoTime]
    /\ commanded = [r \in RobotIds |-> NoTime]

\* ---------------------------------------------------------------- helpers
\* Map.set
MapSet(map, key, value) ==
    [k \in (DOMAIN map) \cup {key} |-> IF k = key THEN value ELSE map[k]]
\* Map.delete
MapDelete(map, key) == [k \in (DOMAIN map) \ {key} |-> map[k]]

\* `message.robotId || 'fordward'`
OrDefault(rid) == IF rid = NULL THEN DefaultRobotId ELSE rid

\* What a handler returns: the maps and sockets after it, and its effects.
Result(r, u, s, out) == [robots |-> r, uiClients |-> u, sockets |-> s, sent |-> out]
\* A handler that changes nothing.
Reply(out) == Result(robots, uiClients, sockets, out)

\* client.ws.readyState === client.ws.OPEN
ClientOpen(c) == c \in DOMAIN uiClients /\ uiClients[c].ws = "OPEN"
\* A subscription test that any subscription satisfies.
SubscribedToAny(c, robotId) == uiClients[c].subscribedRobots # {}
\* client.subscribedRobots.has(robotId)
Subscribed(c, robotId) == robotId \in uiClients[c].subscribedRobots

broadcastToRobotSubscribers(robotId, message) ==
    LET to == SelectSeq(ClientOrder,
                        LAMBDA c : ClientOpen(c) /\ Subscribed(c, robotId))
    IN [i \in 1..Len(to) |-> Send(to[i], message)]

broadcastToAll(message) ==
    LET to == SelectSeq(ClientOrder, LAMBDA c : ClientOpen(c))
    IN [i \in 1..Len(to) |-> Send(to[i], message)]

\* ws.terminate(): the socket leaves OPEN at once; its 'close' event is
\* emitted later, as a separate event.
Terminate(socks, s) ==
    IF socks[s].readyState = "OPEN"
    THEN [socks EXCEPT ![s].readyState = "CLOSING"]
    ELSE socks

\* A send that does not look at the socket's readyState.
SendAnyway(socks, s, msg) == << Send(s, msg) >>
\* ws.send(): delivered only on an OPEN socket.
RobotSend(socks, s, msg) ==
    IF socks[s].readyState = "OPEN" THEN << Send(s, msg) >> ELSE << >>

\* Applying a handler's result.
Apply(res) ==
    /\ robots' = res.robots
    /\ uiClients' = res.uiClients
    /\ sockets' = res.sockets
    /\ UNCHANGED now

\* --------------------------------------------------------- robot endpoint
\* robotWss.on('connection'): a new socket, `let robotId = null`.  A socket
\* name is taken again only once nothing refers to the closed socket.
RobotConnect(s) ==
    /\ sockets[s].readyState = "CLOSED"
    /\ \A r \in DOMAIN robots : robots[r].ws # s
    /\ sockets' = [sockets EXCEPT ![s] = [readyState |-> "OPEN", robotId |-> NULL]]
    /\ UNCHANGED <<robots, uiClients, now>>

\* The record robots.set stores on hello/register.
NewRobot(s) ==
    [ws |-> s, lastSeen |-> now, telemetry |-> NoTelemetry, control |-> NoControl]

\* A hello/register that never closes the old connection.
NeverReconnect(robotId) == FALSE
\* `if (robots.has(robotId))`: the old connection to close on hello/register.
Reconnect(robotId) == robotId \in DOMAIN robots

\* message.type === 'hello' || message.type === 'register'
OnRobotHello(s, m) ==
    LET robotId == OrDefault(m.robotId)
        socks1 == IF Reconnect(robotId)
                  THEN Terminate(sockets, robots[robotId].ws)
                  ELSE sockets
        welcome == [NoFrame EXCEPT !.type = "welcome", !.robotId = robotId]
        online == [NoFrame EXCEPT !.type = "event", !.robotId = robotId,
                                  !.kind = "robot_online"]
    IN Result(MapSet(robots, robotId, NewRobot(s)),
              uiClients,
              [socks1 EXCEPT ![s].robotId = robotId],
              (IF Reconnect(robotId)
               THEN << Effect("terminate", robots[robotId].ws) >>
               ELSE << >>)
              \o << Effect("robots.set", robotId) >>
              \o RobotSend(socks1, s, welcome)
              \o broadcastToAll(online))

\* A state frame that shows no owner.
StateFrameUnowned(robotId, robot) ==
    [NoFrame EXCEPT !.type = "state", !.robotId = robotId,
                    !.telemetry = robot.telemetry, !.online = "true"]
\* The `state` frame broadcast on telemetry.
StateFrame(robotId, robot) ==
    [NoFrame EXCEPT !.type = "state", !.robotId = robotId,
                    !.telemetry = robot.telemetry,
                    !.ownerClientId = robot.control.ownerClientId,
                    !.ownerName = robot.control.ownerName,
                    !.online = "true"]

\* `robotId = message.robotId || message.robot_id || robotId`
TelemetryRobotId(s, m) == IF m.robotId # NULL THEN m.robotId ELSE sockets[s].robotId

\* A telemetry update that keeps the old lastSeen.
SeenWithoutTime(robot, m) == [robot EXCEPT !.telemetry = m.telemetry]
\* `robot.lastSeen = Date.now(); robot.telemetry = message.payload || {}`
Seen(robot, m) == [robot EXCEPT !.lastSeen = now, !.telemetry = m.telemetry]

\* message.type === 'telemetry'
OnRobotTelemetry(s, m) ==
    LET robotId == TelemetryRobotId(s, m)
        socks1 == [sockets EXCEPT ![s].robotId = robotId]
    IN IF robotId # NULL /\ robotId \in DOMAIN robots
       THEN LET robot == Seen(robots[robotId], m)
            IN Result([robots EXCEPT ![robotId] = robot], uiClients, socks1,
                      broadcastToRobotSubscribers(robotId, StateFrame(robotId, robot)))
       ELSE Result(robots, uiClients, socks1, << >>)

\* message.type === 'command_result'
OnRobotCommandResult(s, m) ==
    LET targetRobotId == IF m.robotId # NULL THEN m.robotId ELSE sockets[s].robotId
    IN Reply(IF targetRobotId = NULL THEN << >>
             ELSE broadcastToRobotSubscribers(targetRobotId,
                      [NoFrame EXCEPT !.type = "event", !.robotId = targetRobotId,
                                      !.kind = "command_result"]))

\* ws.on('message') of a robot socket.
OnRobotMessage(s, m) ==
    IF m.type = "hello" \/ m.type = "register" THEN OnRobotHello(s, m)
    ELSE IF m.type = "telemetry" THEN OnRobotTelemetry(s, m)
    ELSE IF m.type = "command_result" THEN OnRobotCommandResult(s, m)
    ELSE Reply(<< >>)

\* Frames are read from an OPEN socket.
RobotMessage(s, m) ==
    /\ sockets[s].readyState = "OPEN"
    /\ Apply(OnRobotMessage(s, m))

\* The peer closes or the connection drops: the socket leaves OPEN, its
\* 'close' event follows.
RobotDrop(s) ==
    /\ sockets[s].readyState = "OPEN"
    /\ sockets' = Terminate(sockets, s)
    /\ UNCHANGED <<robots, uiClients, now>>

\* `if (robotId && robots.has(robotId))` in the close handler.
RemovesOnClose(s, robotId) == robotId # NULL /\ robotId \in DOMAIN robots

\* ws.on('close') of a robot socket.
OnRobotClose(s) ==
    LET robotId == sockets[s].robotId
        socks1 == [sockets EXCEPT ![s] = [readyState |-> "CLOSED", robotId |-> NULL]]
    IN IF RemovesOnClose(s, robotId)
       THEN Result(MapDelete(robots, robotId), uiClients, socks1,
                   << Effect("robots.delete", robotId) >>
                   \o broadcastToAll([NoFrame EXCEPT !.type = "event",
                                         !.robotId = robotId, !.kind = "robot_offline",
                                         !.reason = "disconnected"]))
       ELSE Result(robots, uiClients, socks1, << >>)

RobotClose(s) ==
    /\ sockets[s].readyState = "CLOSING"
    /\ Apply(OnRobotClose(s))

\* ------------------------------------------------------ operator endpoint
\* uiWss.on('connection'): a new client record and the welcome frame.  A
\* clientId is random; one is taken again only after its session is gone.
OnUIConnect(c) ==
    Result(robots,
           MapSet(uiClients, c,
                  [ws |-> "OPEN", clientName |-> DefaultClientName(c),
                   subscribedRobots |-> {}]),
           sockets,
           << Effect("uiClients.set", c),
              Send(c, [NoFrame EXCEPT !.type = "welcome", !.robots = DOMAIN robots]) >>)

UIConnect(c) ==
    /\ c \notin DOMAIN uiClients
    /\ Apply(OnUIConnect(c))

\* The `state` frame sent on subscribe: getRobotState(robotId), or the
\* offline snapshot.
SnapshotFrame(robotId) ==
    IF robotId \in DOMAIN robots
    THEN [NoFrame EXCEPT !.type = "state", !.robotId = robotId,
                         !.telemetry = robots[robotId].telemetry,
                         !.ownerClientId = robots[robotId].control.ownerClientId,
                         !.ownerName = robots[robotId].control.ownerName,
                         !.online = "true"]
    ELSE [NoFrame EXCEPT !.type = "state", !.robotId = robotId,
                         !.telemetry = [mode |-> "unknown", pois |-> << >>],
                         !.online = "false"]

\* `client.subscribedRobots.add(message.robotId || 'fordward')`
AddSubscription(subscribedRobots, m) == subscribedRobots \cup {OrDefault(m.robotId)}

\* message.type === 'subscribe'
OnSubscribe(c, m) ==
    LET robotId == OrDefault(m.robotId)
        client == uiClients[c]
    IN Result(robots,
              [uiClients EXCEPT
                 ![c].subscribedRobots = AddSubscription(client.subscribedRobots, m),
                 ![c].clientName = IF m.clientName # NULL THEN m.clientName
                                   ELSE client.clientName],
              sockets,
              << Send(c, SnapshotFrame(robotId)) >>)

\* An unsubscribe that applies the default of subscribe.
DeleteDefaulted(subscribedRobots, m) == subscribedRobots \ {OrDefault(m.robotId)}
\* `client.subscribedRobots.delete(message.robotId)`: no default here, and
\* deleting undefined removes nothing.
DeleteSubscription(subscribedRobots, m) == subscribedRobots \ {m.robotId}

\* message.type === 'unsubscribe'
OnUnsubscribe(c, m) ==
    Result(robots,
           [uiClients EXCEPT
              ![c].subscribedRobots = DeleteSubscription(uiClients[c].subscribedRobots, m)],
           sockets, << >>)

ErrorFrame(code) == [NoFrame EXCEPT !.type = "error", !.code = code]
EventFrame(robotId, kind) ==
    [NoFrame EXCEPT !.type = "event", !.robotId = robotId, !.kind = kind]

\* An owner name that ignores the name the frame carries.
OwnerNameOfClient(c, m) == uiClients[c].clientName
\* A ROBOT_OFFLINE error that goes to every operator.
OfflineBroadcast(c) == broadcastToAll(ErrorFrame("ROBOT_OFFLINE"))
\* `ws.send(JSON.stringify({ type: 'error', code: 'ROBOT_OFFLINE', ... }))`
OfflineReply(c) == << Send(c, ErrorFrame("ROBOT_OFFLINE")) >>

\* `message.payload?.clientName || client.clientName`
OwnerNameFor(c, m) == IF m.clientName # NULL THEN m.clientName ELSE uiClients[c].clientName

\* A grant that leaves lastCommandAt null.
AcquiredUntimed(c, m) ==
    [ownerClientId |-> c, ownerName |-> OwnerNameFor(c, m),
     since |-> now, lastCommandAt |-> NoTime]
\* The lease a grant or a force writes.
Acquired(c, m) ==
    [ownerClientId |-> c, ownerName |-> OwnerNameFor(c, m),
     since |-> now, lastCommandAt |-> now]

\* An owner test that is satisfied by any holder.
AnyOwner(robot, c) == robot.control.ownerClientId # NULL
\* `robot.control.ownerClientId === clientId`
IsOwner(robot, c) == robot.control.ownerClientId = c

\* A force that yields to another owner.
ForceUnlessOwned(c, m, robotId) ==
    IF robots[robotId].control.ownerClientId \notin {NULL, c}
    THEN Reply(<< Send(c, [ErrorFrame("CONTROL_DENIED") EXCEPT
                             !.holder = robots[robotId].control.ownerName]) >>)
    ELSE Result([robots EXCEPT ![robotId].control = Acquired(c, m)], uiClients, sockets,
                broadcastToRobotSubscribers(robotId,
                    [EventFrame(robotId, "control_forced") EXCEPT
                       !.ownerClientId = c, !.ownerName = OwnerNameFor(c, m),
                       !.previousOwner = robots[robotId].control.ownerName]))
\* action === 'force'
OnControlForce(c, m, robotId) ==
    LET previousOwner == robots[robotId].control.ownerName
    IN Result([robots EXCEPT ![robotId].control = Acquired(c, m)], uiClients, sockets,
              broadcastToRobotSubscribers(robotId,
                  [EventFrame(robotId, "control_forced") EXCEPT
                     !.ownerClientId = c, !.ownerName = OwnerNameFor(c, m),
                     !.previousOwner = previousOwner]))

\* A request that takes the lease as a force does.
RequestAsForce(c, m, robotId) == OnControlForce(c, m, robotId)
\* action === 'request'
OnControlRequest(c, m, robotId) ==
    LET robot == robots[robotId]
    IN IF robot.control.ownerClientId = NULL
       THEN Result([robots EXCEPT ![robotId].control = Acquired(c, m)],
                   uiClients, sockets,
                   broadcastToRobotSubscribers(robotId,
                       [EventFrame(robotId, "control_acquired") EXCEPT
                          !.ownerClientId = c, !.ownerName = OwnerNameFor(c, m)]))
       ELSE IF IsOwner(robot, c)
       THEN Result([robots EXCEPT ![robotId].control.lastCommandAt = now],
                   uiClients, sockets,
                   << Send(c, EventFrame(robotId, "control_confirmed")) >>)
       ELSE Reply(<< Send(c, [ErrorFrame("CONTROL_DENIED") EXCEPT
                                 !.holder = robot.control.ownerName]) >>)

\* A release that does not test who asks.
ReleaseByAnyone(c, m, robotId) ==
    Result([robots EXCEPT ![robotId].control = NoControl], uiClients, sockets,
           broadcastToRobotSubscribers(robotId, EventFrame(robotId, "control_released")))
\* A release that broadcasts the state of the freed lease before the event.
StateBeforeRelease(c, m, robotId) ==
    IF robots[robotId].control.ownerClientId = c
    THEN Result([robots EXCEPT ![robotId].control = NoControl], uiClients, sockets,
                broadcastToRobotSubscribers(robotId,
                    StateFrame(robotId, [robots[robotId] EXCEPT !.control = NoControl]))
                \o broadcastToRobotSubscribers(robotId,
                                               EventFrame(robotId, "control_released")))
    ELSE Reply(<< >>)
\* action === 'release'
OnControlRelease(c, m, robotId) ==
    IF IsOwner(robots[robotId], c)
    THEN Result([robots EXCEPT ![robotId].control = NoControl], uiClients, sockets,
                broadcastToRobotSubscribers(robotId,
                                            EventFrame(robotId, "control_released")))
    ELSE Reply(<< >>)

\* message.type === 'control'
OnControl(c, m) ==
    LET robotId == OrDefault(m.robotId)
    IN IF robotId \notin DOMAIN robots THEN Reply(OfflineReply(c))
       ELSE IF m.action = "request" THEN OnControlRequest(c, m, robotId)
       ELSE IF m.action = "release" THEN OnControlRelease(c, m, robotId)
       ELSE IF m.action = "force" THEN OnControlForce(c, m, robotId)
       ELSE Reply(<< >>)

\* A coercion that takes every non-finite value for 0.
FiniteOrZero(x) == IF x.t = "num" THEN x ELSE Num(0)
\* `Number(x) || 0`: NaN (also from undefined or a non-numeric string) and
\* 0 are falsy; a non-zero number, and either infinity, is kept.
NumberOrZero(x) ==
    IF x.t = "num" /\ x.v # 0 THEN x
    ELSE IF x.t = "inf" \/ x.t = "ninf" THEN x
    ELSE Num(0)

\* A clamp without its lower bound: Math.min(max, value).
clampAbove(value, min, max) ==
    IF value.t = "nan" THEN NaN
    ELSE IF value.t = "inf" THEN Num(max)
    ELSE IF value.t = "ninf" THEN NegInf
    ELSE IF value.v > max THEN Num(max)
    ELSE value
\* clamp(value, min, max) = Math.max(min, Math.min(max, value))
clamp(value, min, max) ==
    IF value.t = "nan" THEN NaN
    ELSE IF value.t = "inf" THEN Num(max)
    ELSE IF value.t = "ninf" THEN Num(min)
    ELSE IF value.v > max THEN Num(max)
    ELSE IF value.v < min THEN Num(min)
    ELSE value

CommandFrame(command) == [NoFrame EXCEPT !.type = "command", !.command = command]

\* A POI test that matches ids only.
PoiIdExists(knownPois, poiId) == \E i \in 1..Len(knownPois) : knownPois[i].id = poiId
\* `knownPois.some(p => p.id === poiId || p.name === poiId)`
PoiExists(knownPois, poiId) ==
    \E i \in 1..Len(knownPois) : knownPois[i].id = poiId \/ knownPois[i].name = poiId

\* `knownPois.map(p => p.id || p.name)`
AvailablePois(knownPois) ==
    [i \in 1..Len(knownPois) |->
        IF knownPois[i].id # NULL THEN knownPois[i].id ELSE knownPois[i].name]

\* The switch on kind: the command for the robot (ok), or the error for
\* the operator.
Forward(f) == [ok |-> TRUE, frame |-> f]
Reject(f) == [ok |-> FALSE, frame |-> f]

Validate(payload, robot) ==
    LET kind == payload.kind
    IN IF kind = "teleop"
       THEN Forward([CommandFrame("teleop") EXCEPT
               !.linear_x = clamp(NumberOrZero(payload.linear_x),
                                  -maxLinearVelocity, maxLinearVelocity),
               !.angular_z = clamp(NumberOrZero(payload.angular_z),
                                   -maxAngularVelocity, maxAngularVelocity)])
       ELSE IF kind = "stop" THEN Forward(CommandFrame("stop"))
       ELSE IF kind = "set_mode"
       THEN IF payload.mode \notin validModes
            THEN Reject(ErrorFrame("INVALID_MODE"))
            ELSE Forward([CommandFrame("set_mode") EXCEPT !.arg = payload.mode])
       ELSE IF kind = "load_map"
       THEN IF payload.mapName = NULL
            THEN Reject(ErrorFrame("MISSING_PARAM"))
            ELSE Forward([CommandFrame("load_map") EXCEPT !.arg = payload.mapName])
       ELSE IF kind = "save_map"
       THEN IF payload.mapName = NULL
            THEN Reject(ErrorFrame("MISSING_PARAM"))
            ELSE Forward([CommandFrame("stop_slam") EXCEPT !.arg = payload.mapName])
       ELSE IF kind = "goto_poi"
       THEN LET knownPois == robot.telemetry.pois
            IN IF payload.poiId = NULL
               THEN Reject(ErrorFrame("MISSING_PARAM"))
               ELSE IF Len(knownPois) > 0 /\ ~PoiExists(knownPois, payload.poiId)
               THEN Reject([ErrorFrame("UNKNOWN_POI") EXCEPT
                              !.availablePois = AvailablePois(knownPois)])
               ELSE Forward([CommandFrame("go_to_poi") EXCEPT !.arg = payload.poiId])
       ELSE IF kind = "cancel_nav" THEN Forward(CommandFrame("cancel_nav"))
       ELSE IF kind = "start_slam" THEN Forward(CommandFrame("start_slam"))
       ELSE IF kind = "restart" THEN Forward(CommandFrame("restart"))
       ELSE Reject(ErrorFrame("UNKNOWN_COMMAND"))

\* A control lock check that leaves goto_poi out.
NeedsControlWithoutGoto(kind) == kind \in motionCommands \ {"goto_poi"}
\* A control lock check for the kinds the switch knows.
NeedsControlIfKnown(kind) == kind \in {"teleop", "goto_poi"}
\* A control lock check for every kind.
NeedsControlAlways(kind) == TRUE
\* `motionCommands.includes(kind)`
NeedsControl(kind) == kind \in motionCommands

\* A refresh that restarts the lease.
RefreshedSince(robotId) ==
    [robots EXCEPT ![robotId].control.lastCommandAt = now,
                   ![robotId].control.since = now]
\* `robot.control.lastCommandAt = Date.now()` after the control lock check.
Refreshed(robotId) == [robots EXCEPT ![robotId].control.lastCommandAt = now]

\* message.type === 'command'
OnCommand(c, m) ==
    LET robotId == OrDefault(m.robotId)
        kind == m.payload.kind
    IN IF robotId \notin DOMAIN robots THEN Reply(OfflineReply(c))
       ELSE IF NeedsControl(kind) /\ ~IsOwner(robots[robotId], c)
       THEN Reply(<< Send(c, ErrorFrame("NO_CONTROL")) >>)
       ELSE LET robots1 == IF NeedsControl(kind) THEN Refreshed(robotId) ELSE robots
                v == Validate(m.payload, robots1[robotId])
            IN Result(robots1, uiClients, sockets,
                      IF v.ok THEN RobotSend(sockets, robots1[robotId].ws, v.frame)
                      ELSE << Send(c, v.frame) >>)

\* ws.on('message') of an operator socket.
OnUIMessage(c, m) ==
    IF m.type = "subscribe" THEN OnSubscribe(c, m)
    ELSE IF m.type = "unsubscribe" THEN OnUnsubscribe(c, m)
    ELSE IF m.type = "control" THEN OnControl(c, m)
    ELSE IF m.type = "command" THEN OnCommand(c, m)
    ELSE IF m.type = "ping" THEN Reply(<< Send(c, [NoFrame EXCEPT !.type = "pong"]) >>)
    ELSE Reply(<< >>)

\* Frames are read from an OPEN socket of a connected client.
UIMessage(c, m) ==
    /\ ClientOpen(c)
    /\ Apply(OnUIMessage(c, m))

\* The operator closes or the connection drops: the socket leaves OPEN,
\* its 'close' event follows.
UIDrop(c) ==
    /\ ClientOpen(c)
    /\ uiClients' = [uiClients EXCEPT ![c].ws = "CLOSING"]
    /\ UNCHANGED <<robots, sockets, now>>

\* The robots of `tested` in the order a forEach visits them.
Visited(tested) == SelectSeq(RobotOrder, LAMBDA r : r \in DOMAIN robots /\ r \in tested)

\* The concatenation of f[r] for the robots of a sequence.
ForEach(rs, f) ==
    LET cat[i \in 0..Len(rs)] == IF i = 0 THEN << >> ELSE cat[i - 1] \o f[rs[i]]
    IN cat[Len(rs)]

\* A close handler that releases nothing.
OwnedByNone(c) == << >>
\* A close handler that stops at the first lease it releases.
OwnedByFirst(c) ==
    LET owned == SelectSeq(RobotOrder,
                           LAMBDA r : r \in DOMAIN robots
                                      /\ robots[r].control.ownerClientId = c)
    IN IF owned = << >> THEN << >> ELSE << Head(owned) >>
\* The robots whose lease the close handler of client c releases.
OwnedBy(c) == Visited({r \in DOMAIN robots : IsOwner(robots[r], c)})

InSeq(x, seq) == \E i \in 1..Len(seq) : seq[i] = x

\* ws.on('close') of an operator socket.
OnUIClose(c) ==
    LET released == OwnedBy(c)
    IN Result([r \in DOMAIN robots |->
                  IF InSeq(r, released) THEN [robots[r] EXCEPT !.control = NoControl]
                  ELSE robots[r]],
              MapDelete(uiClients, c),
              sockets,
              ForEach(released,
                      [r \in DOMAIN robots |->
                          << Effect("control.clear", r) >>
                          \o broadcastToRobotSubscribers(r,
                                [EventFrame(r, "control_released") EXCEPT
                                    !.reason = "owner_disconnected"])])
              \o << Effect("uiClients.delete", c) >>)

UIClose(c) ==
    /\ c \in DOMAIN uiClients
    /\ uiClients[c].ws = "CLOSING"
    /\ Apply(OnUIClose(c))

\* --------------------------------------------------------- periodic tasks
\* A staleness test that fires at the timeout, not after it.
StaleAtTimeout(robot) == now - robot.lastSeen >= robotTimeoutMs
\* `now - robot.lastSeen > CONFIG.robotTimeoutMs`
Stale(robot) == now - robot.lastSeen > robotTimeoutMs

\* Cleanup stale robot connections (every 30 s).
OnStaleReaper ==
    LET stale == Visited({r \in DOMAIN robots : Stale(robots[r])})
    IN Result([r \in {x \in DOMAIN robots : ~InSeq(x, stale)} |-> robots[r]],
              uiClients,
              [s \in RobotSockets |->
                  IF \E r \in DOMAIN robots : InSeq(r, stale) /\ robots[r].ws = s
                  THEN Terminate(sockets, s)[s]
                  ELSE sockets[s]],
              ForEach(stale,
                      [r \in DOMAIN robots |->
                          << Effect("terminate", robots[r].ws),
                             Effect("robots.delete", r) >>
                          \o broadcastToAll([EventFrame(r, "robot_offline") EXCEPT
                                                !.reason = "timeout"])]))

StaleReaper == Apply(OnStaleReaper)

\* An idle test that fires at the timeout, not after it.
IdleAtTimeout(control) ==
    /\ control.ownerClientId # NULL
    /\ control.lastCommandAt # NoTime
    /\ now - control.lastCommandAt >= controlIdleTimeoutMs
\* The idle test of the control-lock task.
Idle(control) ==
    /\ control.ownerClientId # NULL
    /\ control.lastCommandAt # NoTime
    /\ now - control.lastCommandAt > controlIdleTimeoutMs

\* Auto-release idle control locks (every 10 s).
OnIdleReaper ==
    LET idle == Visited({r \in DOMAIN robots : Idle(robots[r].control)})
    IN Result([r \in DOMAIN robots |->
                  IF InSeq(r, idle) THEN [robots[r] EXCEPT !.control = NoControl]
                  ELSE robots[r]],
              uiClients,
              sockets,
              ForEach(idle,
                      [r \in DOMAIN robots |->
                          broadcastToRobotSubscribers(r,
                             [EventFrame(r, "control_released") EXCEPT
                                 !.reason = "idle_timeout",
                                 !.previousOwner = robots[r].control.ownerName])]))

IdleReaper == Apply(OnIdleReaper)

\* Time passes.
Tick ==
    /\ now < MaxNow
    /\ now' = now + ClockStep
    /\ UNCHANGED <<robots, uiClients, sockets>>

\* ----------------------------------------------------------------- inputs
\* Command payloads: every kind of the switch, valid and invalid.
Teleop(x, z) == [NoPayload EXCEPT !.kind = "teleop", !.linear_x = x, !.angular_z = z]
Kind(kind) == [NoPayload EXCEPT !.kind = kind]
SetMode(mode) == [NoPayload EXCEPT !.kind = "set_mode", !.mode = mode]
MapCommand(kind, mapName) == [NoPayload EXCEPT !.kind = kind, !.mapName = mapName]
GotoPoi(poiId) == [NoPayload EXCEPT !.kind = "goto_poi", !.poiId = poiId]

TeleopValues == {Num(3), Num(-9), Num(0), Undefined}
Payloads ==
    {Teleop(x, z) : x \in TeleopValues, z \in TeleopValues}
    \cup {Kind(k) : k \in {"stop", "cancel_nav", "start_slam", "restart",
                           "dock", "navigate", "fly", NULL}}
    \cup {SetMode(mode) : mode \in {"nav", "Nav", NULL}}
    \cup {MapCommand(k, n) : k \in {"load_map", "save_map"}, n \in {"lab", NULL}}
    \cup {GotoPoi(p) : p \in {"p1", "Lab", "p9", NULL}}

RobotIdInputs == RobotIds \cup {NULL}
ClientNameInputs(c) == {NULL, CustomName(c)}
ControlActions == {"request", "release", "force", NULL}

HelloFrames(rids) ==
    {RobotFrame(type, rid, NoTelemetry) : type \in {"hello", "register"}, rid \in rids}
TelemetryFrames(rids, ts) == {RobotFrame("telemetry", rid, t) : rid \in rids, t \in ts}
OtherRobotFrames(rids) ==
    {RobotFrame(type, rid, NoTelemetry) : type \in {"command_result", "status"}, rid \in rids}
SubscribeFrames(rids, names) ==
    {UIFrame("subscribe", rid, name, NULL, NoPayload) : rid \in rids, name \in names}
UnsubscribeFrames(rids) ==
    {UIFrame("unsubscribe", rid, NULL, NULL, NoPayload) : rid \in rids}
ControlFrames(rids, names) ==
    {UIFrame("control", rid, name, action, NoPayload) :
        rid \in rids, name \in names, action \in ControlActions}
CommandFrames(rids, payloads) ==
    {UIFrame("command", rid, NULL, NULL, p) : rid \in rids, p \in payloads}
OtherUIFrames == {UIFrame(type, NULL, NULL, NULL, NoPayload) : type \in {"ping", "hello"}}

\* ---------------------------------------------------------------- history
\* The history variables after a step: s is the robot socket whose frame
\* the step handled, m an operator's frame and c that operator (NULL when
\* the step handled no such frame).  A closed socket has no history, nor
\* has a lease that is gone or has changed hands.
HeardAfter(s) ==
    [x \in RobotSockets |->
        IF sockets'[x].readyState = "CLOSED" THEN NoTime
        ELSE IF x = s THEN now
        ELSE heard[x]]
CommandedAfter(c, m) ==
    [x \in RobotIds |->
        IF \/ x \notin DOMAIN robots'
           \/ x \notin DOMAIN robots
           \/ robots'[x].control.ownerClientId = NULL
           \/ robots'[x].control.ownerClientId # robots[x].control.ownerClientId
        THEN NoTime
        ELSE IF /\ c # NULL
                /\ m.type = "command"
                /\ OrDefault(m.robotId) = x
                /\ robots'[x].control.ownerClientId = c
        THEN now
        ELSE commanded[x]]
\* The history is recorded in the specifications that `track` it.
History(track, s, c, m) ==
    IF track
    THEN heard' = HeardAfter(s) /\ commanded' = CommandedAfter(c, m)
    ELSE UNCHANGED <<heard, commanded>>

\* ------------------------------------------------------- the whole server
\* The server among the robot agents of `socks`, which send the frames of
\* `robotFrames`, and the operators of `clients`, where operator c sends
\* the frames of uiFrames[c].
Server(socks, robotFrames, clients, uiFrames, track) ==
    \/ \E s \in socks : RobotConnect(s) /\ History(track, NULL, NULL, NULL)
    \/ \E s \in socks, m \in robotFrames :
          RobotMessage(s, m) /\ History(track, s, NULL, NULL)
    \/ \E s \in socks : RobotDrop(s) /\ History(track, NULL, NULL, NULL)
    \/ \E s \in socks : RobotClose(s) /\ History(track, NULL, NULL, NULL)
    \/ \E c \in clients : UIConnect(c) /\ History(track, NULL, NULL, NULL)
    \/ \E c \in clients : \E m \in uiFrames[c] :
          UIMessage(c, m) /\ History(track, NULL, c, m)
    \/ \E c \in clients : UIDrop(c) /\ History(track, NULL, NULL, NULL)
    \/ \E c \in clients : UIClose(c) /\ History(track, NULL, NULL, NULL)
    \/ StaleReaper /\ History(track, NULL, NULL, NULL)
    \/ IdleReaper /\ History(track, NULL, NULL, NULL)
    \/ Tick /\ History(track, NULL, NULL, NULL)

AllRobotFrames ==
    HelloFrames(RobotIdInputs) \cup TelemetryFrames(RobotIdInputs, Telemetries)
    \cup OtherRobotFrames(RobotIdInputs)
AllUIFrames(c) ==
    SubscribeFrames(RobotIdInputs, ClientNameInputs(c))
    \cup UnsubscribeFrames(RobotIdInputs)
    \cup ControlFrames(RobotIdInputs, ClientNameInputs(c))
    \cup CommandFrames(RobotIdInputs, Payloads)
    \cup OtherUIFrames

\* Every agent, operator and frame: the specification of the server.  Its
\* state space is the product of the ones below and is not enumerated.
Next == Server(RobotSockets, AllRobotFrames, ClientIds,
             [c \in ClientIds |-> AllUIFrames(c)], TRUE)

Spec == Init /\ [][Next]_vars

\* The commands the operators send in the specifications below: one motion
\* kind and one that is not.  The claims about the command pipeline range
\* over Payloads in every state reached.
SomePayloads == {Teleop(Num(3), Num(-9)), Kind("stop")}

\* Lease: one robot agent registering the default robot, two operators
\* with their names, every frame type.
LeaseRobotFrames ==
    HelloFrames({NULL}) \cup TelemetryFrames({NULL}, Telemetries)
    \cup OtherRobotFrames({NULL})
LeaseUIFrames(c) ==
    SubscribeFrames({NULL, "fordward"}, ClientNameInputs(c))
    \cup UnsubscribeFrames({NULL, "fordward"})
    \cup ControlFrames({NULL}, ClientNameInputs(c))
    \cup CommandFrames({NULL}, SomePayloads)
    \cup OtherUIFrames
LeaseNext == Server({"s1"}, LeaseRobotFrames, ClientIds,
               [c \in ClientIds |-> LeaseUIFrames(c)], FALSE)
LeaseSpec == Init /\ [][LeaseNext]_vars

\* Registry: two robot agents naming two robots, one operator.
RegistryRobotFrames ==
    HelloFrames({NULL, "r2"}) \cup TelemetryFrames({NULL, "r2"}, {TelemetryNav})
    \cup OtherRobotFrames({NULL})
RegistryUIFrames(c) ==
    SubscribeFrames({NULL}, {NULL}) \cup UnsubscribeFrames({"fordward"})
    \cup ControlFrames({NULL}, {NULL}) \cup CommandFrames({NULL}, SomePayloads)
RegistryNext == Server(RobotSockets, RegistryRobotFrames, {"c1"},
                  [c \in ClientIds |-> RegistryUIFrames(c)], FALSE)
RegistrySpec == Init /\ [][RegistryNext]_vars

\* Time passes and the interval of the cleanup task elapses: the clock and
\* the task are not postponed for ever.
UntimedTick == Tick /\ History(FALSE, NULL, NULL, NULL)
UntimedStaleReaper == StaleReaper /\ History(FALSE, NULL, NULL, NULL)
RegistryLive == RegistrySpec /\ WF_vars(UntimedTick) /\ WF_vars(UntimedStaleReaper)

\* Fleet: one robot agent registering two robots, two operators.
FleetUIFrames(c) ==
    SubscribeFrames({NULL}, {NULL}) \cup UnsubscribeFrames({"fordward"})
    \cup ControlFrames({NULL, "r2"}, {NULL})
    \cup CommandFrames({NULL, "r2"}, SomePayloads)
FleetNext == Server({"s1"}, HelloFrames({NULL, "r2"}), ClientIds,
               [c \in ClientIds |-> FleetUIFrames(c)], FALSE)
FleetSpec == Init /\ [][FleetNext]_vars

\* Timed: one robot agent, one robot, two operators, with the history of
\* frames and commands recorded.
TimedRobotFrames ==
    HelloFrames({NULL}) \cup TelemetryFrames({NULL}, {TelemetryNav})
    \cup OtherRobotFrames({NULL})
TimedUIFrames(c) ==
    SubscribeFrames({NULL}, {NULL}) \cup ControlFrames({NULL}, {NULL})
    \cup CommandFrames({NULL}, SomePayloads)
TimedNext == Server({"s1"}, TimedRobotFrames, ClientIds,
               [c \in ClientIds |-> TimedUIFrames(c)], TRUE)
TimedSpec == Init /\ [][TimedNext]_vars

\* Time passes and the interval of the control-lock task elapses: the clock
\* and the task are not postponed for ever.
TimedTick == Tick /\ History(TRUE, NULL, NULL, NULL)
TimedIdleReaper == IdleReaper /\ History(TRUE, NULL, NULL, NULL)
TimedLive == TimedSpec /\ WF_vars(TimedTick) /\ WF_vars(TimedIdleReaper)

\* ----------------------------------------------------------------- claims
\* What a handler's effects hold.
Sends(res) == {res.sent[i] : i \in {j \in 1..Len(res.sent) : res.sent[j].op = "send"}}
SentTo(res, to) == {e.msg : e \in {x \in Sends(res) : x.to = to}}
ForwardedTo(res) == {e \in Sends(res) : e.to \in RobotSockets}
CommandFrom(rid, p) == UIFrame("command", rid, NULL, NULL, p)
Registered(r) == r \in DOMAIN robots
OwnerOf(r) == robots[r].control.ownerClientId

\* C1: a teleop or goto_poi command from operator c for a registered robot
\* is forwarded to the robot's socket only if c owns the robot's lease when
\* the frame is handled; from any other operator it is answered with
\* NO_CONTROL alone, nothing is forwarded, and nothing changes (the lease
\* and its lastCommandAt included).
C1_MotionExclusive ==
    \A c \in ClientIds, rid \in RobotIdInputs, p \in Payloads :
       (ClientOpen(c) /\ p.kind \in {"teleop", "goto_poi"}) =>
          LET r == OrDefault(rid)
              res == OnUIMessage(c, CommandFrom(rid, p))
          IN /\ ForwardedTo(res) # {} => (Registered(r) /\ OwnerOf(r) = c)
             /\ \A e \in ForwardedTo(res) : e.to = robots[r].ws
             /\ (Registered(r) /\ OwnerOf(r) # c) =>
                   /\ res.sent = << Send(c, ErrorFrame("NO_CONTROL")) >>
                   /\ res.robots = robots
                   /\ res.uiClients = uiClients
                   /\ res.sockets = sockets

\* A state where one operator owns the lease of a robot with an OPEN
\* socket and another operator is connected: the owner's teleop is
\* forwarded, the other's is refused.
C1_Witness ==
    \E c \in ClientIds, d \in ClientIds :
       /\ c # d /\ ClientOpen(c) /\ ClientOpen(d)
       /\ Registered("fordward") /\ OwnerOf("fordward") = c
       /\ ForwardedTo(OnUIMessage(c, CommandFrom(NULL, Teleop(Num(3), Num(3))))) # {}
       /\ OnUIMessage(d, CommandFrom(NULL, GotoPoi("p1"))).sent
             = << Send(d, ErrorFrame("NO_CONTROL")) >>

\* C2: the owner of every lease is null or the id of a client in the
\* connected client set.
C2_OwnerConnected ==
    \A r \in DOMAIN robots :
       OwnerOf(r) = NULL \/ OwnerOf(r) \in DOMAIN uiClients

\* A lease whose owner's socket has left OPEN while its close event is
\* still to come: the owner is in the client set until then.
C2_Witness ==
    \E r \in DOMAIN robots :
       /\ OwnerOf(r) \in DOMAIN uiClients
       /\ uiClients[OwnerOf(r)].ws = "CLOSING"

\* C3: when a robot socket closes, the record under its RobotId is removed
\* and robot_offline broadcast only if the stored record is the one of the
\* closing socket; the close of a superseded socket leaves the newer
\* record in place and broadcasts nothing.
C3_CompareAndRemove ==
    \A s \in RobotSockets :
       sockets[s].readyState = "CLOSING" =>
          LET res == OnRobotClose(s)
          IN \A r \in DOMAIN robots :
                robots[r].ws # s =>
                   /\ r \in DOMAIN res.robots
                   /\ res.robots[r] = robots[r]
                   /\ \A e \in Sends(res) :
                         ~(e.msg.kind = "robot_offline" /\ e.msg.robotId = r)

Position(seq, e) == CHOOSE i \in 1..Len(seq) : seq[i] = e

\* C4: a hello/register for a RobotId that has a record of another socket
\* terminates that socket before the new record is stored, leaves one
\* record for the RobotId, bound to the new socket, and broadcasts
\* robot_online to every OPEN operator connection.
C4_ReconnectSupersedes ==
    \A s \in RobotSockets, m \in AllRobotFrames :
       LET r == OrDefault(m.robotId)
       IN (/\ sockets[s].readyState = "OPEN"
           /\ m.type \in {"hello", "register"}
           /\ Registered(r) /\ robots[r].ws # s) =>
             LET res == OnRobotMessage(s, m)
                 old == robots[r].ws
                 online == [NoFrame EXCEPT !.type = "event", !.robotId = r,
                                           !.kind = "robot_online"]
             IN /\ InSeq(Effect("terminate", old), res.sent)
                /\ InSeq(Effect("robots.set", r), res.sent)
                /\ Position(res.sent, Effect("terminate", old))
                      < Position(res.sent, Effect("robots.set", r))
                /\ res.sockets[old].readyState # "OPEN"
                /\ res.robots[r].ws = s
                /\ DOMAIN res.robots = DOMAIN robots
                /\ \A c \in ClientIds :
                      ClientOpen(c) <=> InSeq(Send(c, online), res.sent)
                /\ \A c \in ClientIds :
                      ClientOpen(c) =>
                         Position(res.sent, Effect("robots.set", r))
                            < Position(res.sent, Send(c, online))

\* A robot registered over an OPEN socket, a second OPEN socket about to
\* say hello for it, and an operator connected to hear of it.
C4_Witness ==
    \E s \in RobotSockets, r \in DOMAIN robots, c \in ClientIds :
       /\ sockets[s].readyState = "OPEN" /\ robots[r].ws # s
       /\ sockets[robots[r].ws].readyState = "OPEN"
       /\ ClientOpen(c)
       /\ OnRobotMessage(s, RobotFrame("hello", r, NoTelemetry)).robots[r].ws = s

ControlRequest(r) == UIFrame("control", r, NULL, "request", NoPayload)
\* A control request of operator d for robot r is granted: d becomes the
\* owner of the lease, as of now.
Granted(d, r) ==
    LET res == OnUIMessage(d, ControlRequest(r))
    IN /\ d # OwnerOf(r)
       /\ res.robots[r].control.ownerClientId = d
       /\ res.robots[r].control.since = now
       /\ res.robots[r].control.lastCommandAt = now

Times == {StartTime + k * ClockStep : k \in 0..MaxTicks}
IdleFrame(r) ==
    [EventFrame(r, "control_released") EXCEPT
        !.reason = "idle_timeout", !.previousOwner = robots[r].control.ownerName]
\* What a tick of the control-lock task does to every lease.
C6_Tick ==
    LET res == OnIdleReaper
    IN /\ DOMAIN res.robots = DOMAIN robots
       /\ res.uiClients = uiClients
       /\ \A r \in DOMAIN robots :
             IF /\ OwnerOf(r) # NULL
                /\ now - robots[r].control.lastCommandAt > controlIdleTimeoutMs
             THEN /\ res.robots[r] = [robots[r] EXCEPT !.control = NoControl]
                  /\ \A d \in ClientIds :
                        (ClientOpen(d) /\ Subscribed(d, r))
                           <=> InSeq(Send(d, IdleFrame(r)), res.sent)
             ELSE /\ res.robots[r] = robots[r]
                  /\ \A e \in Sends(res) : e.msg.robotId # r
\* After an eviction, a motion command of the former owner is refused.
C6_After ==
    IdleReaper =>
       \A r \in DOMAIN robots, c \in ClientIds, p \in Payloads :
          (/\ OwnerOf(r) = c
           /\ now - robots[r].control.lastCommandAt > controlIdleTimeoutMs
           /\ p.kind \in motionCommands
           /\ ClientOpen(c)') =>
             (OnUIMessage(c, CommandFrom(r, p)).sent
                 = << Send(c, ErrorFrame("NO_CONTROL")) >>)'
\* The lease of robot r is owned by c and was last refreshed at t.
LeaseAt(r, c, t) ==
    /\ Registered(r)
    /\ OwnerOf(r) = c
    /\ robots[r].control.lastCommandAt = t
\* A lease is not owned with the same lastCommandAt for ever, as far as the
\* clock reaches beyond its timeout.
C6_Live ==
    \A r \in RobotIds, c \in ClientIds, t \in Times :
       (LeaseAt(r, c, t) /\ t + controlIdleTimeoutMs < MaxNow) ~> ~LeaseAt(r, c, t)

\* C6: a tick of the idle-lease task releases every Owned lease with
\* now - lastCommandAt > controlIdleTimeoutMs and broadcasts
\* control_released (idle_timeout, previousOwner = the former ownerName) to
\* the robot's subscribers; it leaves every other lease unchanged; after
\* the eviction a motion command of the former owner yields NO_CONTROL;
\* and, the task and the clock being fair, a lease that is not refreshed is
\* eventually released.
C6_IdleEviction == []C6_Tick /\ [][C6_After]_vars /\ C6_Live

\* An Owned lease past its timeout with its owner and a subscriber
\* connected, which the task is about to release.
C6_Witness ==
    \E r \in DOMAIN robots, c \in ClientIds, d \in ClientIds :
       /\ OwnerOf(r) = c /\ ClientOpen(c)
       /\ now - robots[r].control.lastCommandAt > controlIdleTimeoutMs
       /\ ClientOpen(d) /\ Subscribed(d, r)
       /\ OnIdleReaper.robots[r].control = NoControl
       /\ InSeq(Send(d, IdleFrame(r)), OnIdleReaper.sent)

\* C7: the idle-lease task never evicts an owner who sent a command of any
\* kind for the robot within the preceding controlIdleTimeoutMs.
C7_AnyCommandKeepsLease ==
    \A r \in DOMAIN robots :
       (OwnerOf(r) # NULL /\ OnIdleReaper.robots[r].control.ownerClientId = NULL) =>
          \/ commanded[r] = NoTime
          \/ now - commanded[r] > controlIdleTimeoutMs

ValidationCodes == {"INVALID_MODE", "MISSING_PARAM", "UNKNOWN_POI", "UNKNOWN_COMMAND"}
\* The command is answered with a validation error.
Rejected(res) ==
    \E e \in Sends(res) : e.msg.type = "error" /\ e.msg.code \in ValidationCodes
\* The validation error goes to the operator alone, nothing to a robot.
OnlyTo(res, c) ==
    /\ Len(res.sent) = 1
    /\ res.sent[1].op = "send" /\ res.sent[1].to = c
    /\ res.sent[1].msg.type = "error" /\ res.sent[1].msg.code \in ValidationCodes

\* C8 as stated: a command answered with INVALID_MODE, MISSING_PARAM,
\* UNKNOWN_POI or UNKNOWN_COMMAND sends the error to its operator only and
\* leaves the registry, every robot record (lastCommandAt included) and
\* every client record as they were.
C8_NoStateChange ==
    \A c \in ClientIds, rid \in RobotIdInputs, p \in Payloads :
       ClientOpen(c) =>
          LET res == OnUIMessage(c, CommandFrom(rid, p))
          IN Rejected(res) =>
                /\ OnlyTo(res, c)
                /\ res.robots = robots
                /\ res.uiClients = uiClients
                /\ res.sockets = sockets

\* C8 amended: a command answered with a validation error sends the error
\* to its operator only and changes nothing, except that a motion kind
\* (teleop, goto_poi, dock, navigate), which only the lease owner gets this
\* far with, has set the lease's lastCommandAt to now before it is
\* validated.
C8_OnlyLeaseRefreshed ==
    \A c \in ClientIds, rid \in RobotIdInputs, p \in Payloads :
       ClientOpen(c) =>
          LET res == OnUIMessage(c, CommandFrom(rid, p))
              r == OrDefault(rid)
          IN Rejected(res) =>
                /\ OnlyTo(res, c)
                /\ res.uiClients = uiClients
                /\ res.sockets = sockets
                /\ IF p.kind \in motionCommands
                   THEN /\ OwnerOf(r) = c
                        /\ res.robots = [robots EXCEPT ![r].control.lastCommandAt = now]
                   ELSE res.robots = robots

\* The owner of a lease last refreshed before now, whose goto_poi names no
\* POI the robot knows: the error comes back and lastCommandAt is now.
C8_Witness ==
    \E c \in ClientIds, r \in DOMAIN robots :
       /\ ClientOpen(c) /\ OwnerOf(r) = c
       /\ robots[r].control.lastCommandAt < now
       /\ LET res == OnUIMessage(c, CommandFrom(r, GotoPoi("p9")))
          IN /\ Rejected(res)
             /\ res.sent[1].msg.code = "UNKNOWN_POI"
             /\ res.robots[r].control.lastCommandAt = now
             /\ res.robots # robots

\* C9 as stated: the staleness task removes a robot only if its peer sent
\* no frame of any type for more than robotTimeoutMs.
C9_AnyFrameKeepsRobot ==
    \A r \in DOMAIN robots :
       r \notin DOMAIN OnStaleReaper.robots =>
          \/ heard[robots[r].ws] = NoTime
          \/ now - heard[robots[r].ws] > robotTimeoutMs

\* C9 amended: the staleness task removes exactly the robots with
\* now - lastSeenAt > robotTimeoutMs; lastSeenAt is set to now by a
\* hello/register frame, for the record it stores, and by a telemetry frame,
\* for the registered robot it is about; a command_result frame or a frame
\* of another type changes no record.
C9_TelemetryKeepsRobot ==
    /\ \A r \in DOMAIN robots :
          r \notin DOMAIN OnStaleReaper.robots
             <=> now - robots[r].lastSeen > robotTimeoutMs
    /\ \A s \in RobotSockets, m \in AllRobotFrames :
          sockets[s].readyState = "OPEN" =>
             LET res == OnRobotMessage(s, m)
             IN IF m.type \in {"hello", "register"}
                THEN res.robots[OrDefault(m.robotId)].lastSeen = now
                ELSE IF m.type = "telemetry"
                THEN LET r == TelemetryRobotId(s, m)
                     IN IF r # NULL /\ Registered(r)
                        THEN res.robots = [robots EXCEPT ![r] = Seen(robots[r], m)]
                             /\ res.robots[r].lastSeen = now
                        ELSE res.robots = robots
                ELSE res.robots = robots

\* A robot whose peer has just sent a frame over its OPEN socket, and which
\* the staleness task is about to remove all the same.
C9_Witness ==
    \E r \in DOMAIN robots :
       /\ sockets[robots[r].ws].readyState = "OPEN"
       /\ heard[robots[r].ws] = now
       /\ now - robots[r].lastSeen > robotTimeoutMs
       /\ r \notin DOMAIN OnStaleReaper.robots

Subscribe(rid) == UIFrame("subscribe", rid, NULL, NULL, NoPayload)
Unsubscribe(rid) == UIFrame("unsubscribe", rid, NULL, NULL, NoPayload)
\* The subscription set of c after its subscribe for rid.
AfterSubscribe(c, rid) == OnUIMessage(c, Subscribe(rid)).uiClients[c].subscribedRobots

\* C10 as stated: subscribe then unsubscribe for the same robot, by the same
\* operator, leaves the operator's subscription set as it was before the
\* subscribe, whatever the set and whether robotId is given or omitted in
\* both frames.
C10_RoundTrip ==
    \A c \in ClientIds, rid \in RobotIdInputs :
       ClientOpen(c) =>
          DeleteSubscription(AfterSubscribe(c, rid), Unsubscribe(rid))
             = uiClients[c].subscribedRobots

\* C10 amended: subscribe adds the robot named, "fordward" if robotId is
\* omitted; unsubscribe removes the robot named and nothing if robotId is
\* omitted.  Subscribe then unsubscribe with the same explicit robotId
\* leaves the set without that robot, which is the prior set if the
\* operator was not subscribed to it; with robotId omitted in both it leaves
\* the prior set with "fordward" added.
C10_RoundTripAsCoded ==
    \A c \in ClientIds, rid \in RobotIdInputs :
       ClientOpen(c) =>
          LET prior == uiClients[c].subscribedRobots
          IN /\ AfterSubscribe(c, rid) = prior \cup {IF rid = NULL THEN "fordward" ELSE rid}
             /\ OnUIMessage(c, Unsubscribe(rid)).uiClients[c].subscribedRobots
                   = DeleteSubscription(prior, Unsubscribe(rid))
             /\ DeleteSubscription(AfterSubscribe(c, rid), Unsubscribe(rid))
                   = IF rid = NULL THEN prior \cup {"fordward"} ELSE prior \ {rid}
             /\ (rid # NULL /\ rid \notin prior) =>
                   DeleteSubscription(AfterSubscribe(c, rid), Unsubscribe(rid)) = prior

\* An operator subscribed to nothing, whose subscribe and unsubscribe
\* without robotId leave it subscribed to "fordward", and another
\* subscribed to "fordward", whose round trip naming it leaves nothing.
C10_Witness ==
    \E c \in ClientIds, d \in ClientIds :
       /\ ClientOpen(c) /\ uiClients[c].subscribedRobots = {}
       /\ DeleteSubscription(AfterSubscribe(c, NULL), Unsubscribe(NULL)) = {"fordward"}
       /\ ClientOpen(d) /\ uiClients[d].subscribedRobots = {"fordward"}
       /\ DeleteSubscription(AfterSubscribe(d, "fordward"), Unsubscribe("fordward")) = {}

\* How many times effect e occurs among the effects of a handler.
Count(seq, e) == Cardinality({i \in 1..Len(seq) : seq[i] = e})
\* The effects are one copy of frame for each OPEN subscriber of r, and
\* nothing else.
BroadcastOnly(res, r, frame) ==
    /\ \A d \in ClientIds :
          Count(res.sent, Send(d, frame))
             = IF ClientOpen(d) /\ Subscribed(d, r) THEN 1 ELSE 0
    /\ \A i \in 1..Len(res.sent) : res.sent[i].op = "send" /\ res.sent[i].msg = frame
\* The frames an operator may send, with the commands of SomePayloads.
UIInputs(c) ==
    SubscribeFrames(RobotIdInputs, ClientNameInputs(c))
    \cup UnsubscribeFrames(RobotIdInputs)
    \cup ControlFrames(RobotIdInputs, ClientNameInputs(c))
    \cup CommandFrames(RobotIdInputs, SomePayloads)
    \cup OtherUIFrames
ControlInputs(c, action) ==
    {UIFrame("control", rid, name, action, NoPayload) :
        rid \in RobotIdInputs, name \in ClientNameInputs(c)}
NameIn(c, m) == IF m.clientName # NULL THEN m.clientName ELSE uiClients[c].clientName
Kinds(out, kind) == {i \in 1..Len(out) : out[i].op = "send" /\ out[i].msg.kind = kind}

\* C11: a control request of operator c for a registered robot with an
\* Unowned lease makes the lease Owned(c, n), n the clientName of the
\* request or else c's clientName, and broadcasts one control_acquired
\* (ownerClientId c, ownerName n) to the robot's subscribers; no other
\* frame, handler or periodic job emits control_acquired.
C11_Grant ==
    /\ \A c \in ClientIds :
          ClientOpen(c) =>
             \A m \in UIInputs(c) :
                LET r == OrDefault(m.robotId)
                    res == OnUIMessage(c, m)
                    n == NameIn(c, m)
                IN IF /\ m.type = "control" /\ m.action = "request"
                      /\ Registered(r) /\ OwnerOf(r) = NULL
                   THEN /\ res.robots =
                             [robots EXCEPT ![r].control =
                                 [ownerClientId |-> c, ownerName |-> n,
                                  since |-> now, lastCommandAt |-> now]]
                        /\ res.uiClients = uiClients
                        /\ BroadcastOnly(res, r,
                              [EventFrame(r, "control_acquired") EXCEPT
                                  !.ownerClientId = c, !.ownerName = n])
                   ELSE Kinds(res.sent, "control_acquired") = {}
    /\ \A s \in RobotSockets :
          /\ sockets[s].readyState = "OPEN" =>
                \A m \in AllRobotFrames :
                   Kinds(OnRobotMessage(s, m).sent, "control_acquired") = {}
          /\ sockets[s].readyState = "CLOSING" =>
                Kinds(OnRobotClose(s).sent, "control_acquired") = {}
    /\ \A c \in ClientIds :
          /\ c \notin DOMAIN uiClients =>
                Kinds(OnUIConnect(c).sent, "control_acquired") = {}
          /\ (c \in DOMAIN uiClients /\ ~ClientOpen(c)) =>
                Kinds(OnUIClose(c).sent, "control_acquired") = {}
    /\ Kinds(OnStaleReaper.sent, "control_acquired") = {}
    /\ Kinds(OnIdleReaper.sent, "control_acquired") = {}

\* A registered robot with an Unowned lease and two OPEN subscribers, one
\* of which is granted the lease under the name its request carries.
C11_Witness ==
    \E c \in ClientIds, d \in ClientIds, r \in DOMAIN robots :
       /\ c # d /\ ClientOpen(c) /\ ClientOpen(d)
       /\ Subscribed(c, r) /\ Subscribed(d, r)
       /\ OwnerOf(r) = NULL
       /\ uiClients[c].clientName # CustomName(c)
       /\ LET res == OnUIMessage(c, UIFrame("control", r, CustomName(c), "request", NoPayload))
          IN /\ res.robots[r].control.ownerName = CustomName(c)
             /\ Len(res.sent) = 2
             /\ Kinds(res.sent, "control_acquired") = {1, 2}

\* C12: a control request for a robot whose lease another operator owns
\* leaves the lease and everything else unchanged and sends CONTROL_DENIED,
\* with holder = the owner's name, to the requester alone.
C12_Denied ==
    \A c \in ClientIds :
       ClientOpen(c) =>
          \A m \in ControlInputs(c, "request") :
             LET r == OrDefault(m.robotId)
                 res == OnUIMessage(c, m)
             IN (Registered(r) /\ OwnerOf(r) # NULL /\ OwnerOf(r) # c) =>
                   /\ res.robots = robots
                   /\ res.uiClients = uiClients
                   /\ res.sockets = sockets
                   /\ res.sent = << Send(c, [ErrorFrame("CONTROL_DENIED") EXCEPT
                                               !.holder = robots[r].control.ownerName]) >>

\* A lease held under the name "A" or "B" its owner gave, and a request of
\* the other operator, subscribed like the owner, which is denied.
C12_Witness ==
    \E c \in ClientIds, d \in ClientIds, r \in DOMAIN robots :
       /\ c # d /\ ClientOpen(c) /\ ClientOpen(d)
       /\ Subscribed(c, r) /\ Subscribed(d, r)
       /\ OwnerOf(r) = d /\ robots[r].control.ownerName = CustomName(d)
       /\ LET res == OnUIMessage(c, ControlRequest(r))
          IN /\ Len(res.sent) = 1
             /\ res.sent[1].to = c
             /\ res.sent[1].msg.code = "CONTROL_DENIED"
             /\ res.sent[1].msg.holder = CustomName(d)

\* What a request of the owner does.
C13_Confirm ==
    \A c \in ClientIds :
       ClientOpen(c) =>
          \A m \in ControlInputs(c, "request") :
             LET r == OrDefault(m.robotId)
                 res == OnUIMessage(c, m)
             IN (Registered(r) /\ OwnerOf(r) = c) =>
                   /\ res.robots = [robots EXCEPT ![r].control.lastCommandAt = now]
                   /\ res.uiClients = uiClients
                   /\ res.sockets = sockets
                   /\ res.sent = << Send(c, EventFrame(r, "control_confirmed")) >>
\* After a request of the owner, the same request again changes nothing.
C13_Again ==
    \A c \in ClientIds :
       \A m \in ControlInputs(c, "request") :
          (/\ Registered(OrDefault(m.robotId))
           /\ OwnerOf(OrDefault(m.robotId)) = c
           /\ UIMessage(c, m)) =>
             \A m2 \in ControlInputs(c, "request") :
                OrDefault(m2.robotId) = OrDefault(m.robotId) =>
                   (OnUIMessage(c, m2).robots = robots)'

\* C13: a control request of the current owner leaves ownerClientId,
\* ownerName and since as they are, whatever clientName it carries, sets
\* lastCommandAt to now, sends control_confirmed to the requester alone and
\* broadcasts nothing; repeated, it leaves the lease as the first left it.
C13_OwnerRequestIdempotent == []C13_Confirm /\ [][C13_Again]_vars

\* An owner whose lease is older than now and not under the name "A" or
\* "B", whose request carrying that name keeps the lease's name and since.
C13_Witness ==
    \E c \in ClientIds, r \in DOMAIN robots :
       /\ ClientOpen(c) /\ OwnerOf(r) = c
       /\ robots[r].control.since < now
       /\ robots[r].control.lastCommandAt < now
       /\ robots[r].control.ownerName # CustomName(c)
       /\ LET res == OnUIMessage(c, UIFrame("control", r, CustomName(c), "request", NoPayload))
          IN /\ res.robots[r].control.ownerName = robots[r].control.ownerName
             /\ res.robots[r].control.since = robots[r].control.since
             /\ res.robots[r].control.lastCommandAt = now
             /\ res.sent[1].msg.kind = "control_confirmed"

\* C14: a control release of the owner makes the lease Unowned and
\* broadcasts control_released to the robot's subscribers, nothing else to
\* the requester; a release of any other operator, the lease Owned or not,
\* changes nothing and sends no frame.
C14_Release ==
    \A c \in ClientIds :
       ClientOpen(c) =>
          \A m \in ControlInputs(c, "release") :
             LET r == OrDefault(m.robotId)
                 res == OnUIMessage(c, m)
             IN Registered(r) =>
                   /\ res.uiClients = uiClients
                   /\ res.sockets = sockets
                   /\ IF OwnerOf(r) = c
                      THEN /\ res.robots = [robots EXCEPT ![r].control = NoControl]
                           /\ BroadcastOnly(res, r, EventFrame(r, "control_released"))
                      ELSE /\ res.robots = robots
                           /\ res.sent = << >>

\* An owner that is not subscribed to its robot and whose release is heard
\* by the other operator alone, which is subscribed and whose own release
\* does nothing.
C14_Witness ==
    \E c \in ClientIds, d \in ClientIds, r \in DOMAIN robots :
       /\ c # d /\ ClientOpen(c) /\ ClientOpen(d)
       /\ OwnerOf(r) = c /\ ~Subscribed(c, r) /\ Subscribed(d, r)
       /\ OnUIMessage(c, UIFrame("control", r, NULL, "release", NoPayload)).sent
             = << Send(d, EventFrame(r, "control_released")) >>
       /\ OnUIMessage(d, UIFrame("control", r, NULL, "release", NoPayload)).sent = << >>

\* What a force does, whatever the lease.
C15_Take ==
    \A c \in ClientIds :
       ClientOpen(c) =>
          \A m \in ControlInputs(c, "force") :
             LET r == OrDefault(m.robotId)
                 res == OnUIMessage(c, m)
                 n == NameIn(c, m)
             IN Registered(r) =>
                   /\ res.robots =
                         [robots EXCEPT ![r].control =
                             [ownerClientId |-> c, ownerName |-> n,
                              since |-> now, lastCommandAt |-> now]]
                   /\ res.uiClients = uiClients
                   /\ res.sockets = sockets
                   /\ BroadcastOnly(res, r,
                         [EventFrame(r, "control_forced") EXCEPT
                             !.ownerClientId = c, !.ownerName = n,
                             !.previousOwner = robots[r].control.ownerName])
\* After a force that displaces an owner, the motion commands of that
\* owner are refused.
C15_Displaced ==
    \A c \in ClientIds, d \in ClientIds :
       \A m \in ControlInputs(c, "force") :
          (/\ c # d
           /\ Registered(OrDefault(m.robotId))
           /\ OwnerOf(OrDefault(m.robotId)) = d
           /\ UIMessage(c, m)
           /\ ClientOpen(d)') =>
             \A p \in Payloads :
                p.kind \in motionCommands =>
                   (OnUIMessage(d, CommandFrom(m.robotId, p)).sent
                       = << Send(d, ErrorFrame("NO_CONTROL")) >>)'

\* C15: a control force of any connected operator c for a registered
\* robot, the lease Unowned, owned by another or owned by c, and with
\* nothing in the frame to authorise it, makes the lease Owned(c, n) and
\* broadcasts one control_forced to the robot's subscribers with
\* previousOwner = the ownerName held before (null if Unowned); the motion
\* commands of a displaced owner then yield NO_CONTROL.
C15_Force == []C15_Take /\ [][C15_Displaced]_vars

\* A lease held by one operator under its own name, which the force of
\* another takes, both subscribed and told who held it.
C15_Witness ==
    \E c \in ClientIds, d \in ClientIds, r \in DOMAIN robots :
       /\ c # d /\ ClientOpen(c) /\ ClientOpen(d)
       /\ Subscribed(c, r) /\ Subscribed(d, r)
       /\ OwnerOf(r) = d /\ robots[r].control.ownerName = CustomName(d)
       /\ LET res == OnUIMessage(c, UIFrame("control", r, NULL, "force", NoPayload))
          IN /\ res.robots[r].control.ownerClientId = c
             /\ Len(res.sent) = 2
             /\ res.sent[1].msg.kind = "control_forced"
             /\ res.sent[1].msg.previousOwner = CustomName(d)

\* Values an operator may put in linear_x or angular_z, in tenths: inside,
\* on and beyond each bound, and the values that are no finite number.
TeleopInputs ==
    {Num(n) : n \in {-20, -16, -15, -14, -6, -5, -4, 0, 3, 5, 6, 14, 15, 16, 20}}
    \cup {NaN, PosInf, NegInf, Undefined, NotANumber}
\* The teleop payloads with value x in one field or in both.
TeleopWith(x) == {Teleop(x, Num(3)), Teleop(Num(3), x), Teleop(x, x)}
\* v is a finite number within the inclusive bound.
Within(v, bound) == v.t = "num" /\ -bound <= v.v /\ v.v <= bound
\* A finite input comes out unchanged if it is within the bound, and as the
\* bound it is beyond otherwise.
Clamped(in, out, bound) ==
    in.t = "num" =>
       out = Num(IF in.v > bound THEN bound ELSE IF in.v < -bound THEN -bound ELSE in.v)
TeleopForwarded(res) == {e.msg : e \in {x \in ForwardedTo(res) : x.msg.command = "teleop"}}

\* C16: every teleop frame forwarded to a robot socket has
\* |linear_x| <= 0.5 and |angular_z| <= 1.5 (5 and 15 tenths), whatever the
\* operator supplied; a value within the bounds is forwarded as it is and
\* one beyond a bound as that bound.
C16_TeleopClamped ==
    \A c \in ClientIds :
       ClientOpen(c) =>
          \A x \in TeleopInputs :
             \A p \in TeleopWith(x) :
                \A f \in TeleopForwarded(OnUIMessage(c, CommandFrom(NULL, p))) :
                   /\ Within(f.linear_x, 5)
                   /\ Within(f.angular_z, 15)
                   /\ Clamped(p.linear_x, f.linear_x, 5)
                   /\ Clamped(p.angular_z, f.angular_z, 15)

\* The owner of a robot with an OPEN socket, whose teleop beyond both
\* bounds is forwarded at the bounds and whose teleop on the bounds is
\* forwarded as it is.
C16_Witness ==
    \E c \in ClientIds :
       /\ ClientOpen(c) /\ Registered("fordward") /\ OwnerOf("fordward") = c
       /\ \E f \in TeleopForwarded(OnUIMessage(c, CommandFrom(NULL, Teleop(Num(6), Num(-16))))) :
             f.linear_x = Num(5) /\ f.angular_z = Num(-15)
       /\ \E f \in TeleopForwarded(OnUIMessage(c, CommandFrom(NULL, Teleop(Num(-5), Num(15))))) :
             f.linear_x = Num(-5) /\ f.angular_z = Num(15)

NonFinite == {NaN, PosInf, NegInf}

\* C17 as stated: a teleop of the owner whose linear_x or angular_z is
\* +infinity, -infinity or NaN is forwarded with that component 0.
C17_NonFiniteIsZero ==
    \A c \in ClientIds :
       ClientOpen(c) =>
          \A x \in NonFinite :
             \A f \in TeleopForwarded(OnUIMessage(c, CommandFrom(NULL, Teleop(x, x)))) :
                f.linear_x = Num(0) /\ f.angular_z = Num(0)

\* What a non-finite or missing value is forwarded as, under the bound.
AsCoded(x, bound) ==
    IF x.t = "inf" THEN Num(bound) ELSE IF x.t = "ninf" THEN Num(-bound) ELSE Num(0)

\* C17 amended: a teleop of the owner whose linear_x or angular_z is NaN,
\* missing or a string that is no number is forwarded with that component
\* 0; +infinity is forwarded as the upper bound of the component and
\* -infinity as its lower bound.
C17_InfinityIsBound ==
    \A c \in ClientIds :
       ClientOpen(c) =>
          \A x \in NonFinite \cup {Undefined, NotANumber} :
             \A p \in TeleopWith(x) :
                \A f \in TeleopForwarded(OnUIMessage(c, CommandFrom(NULL, p))) :
                   /\ p.linear_x = x => f.linear_x = AsCoded(x, 5)
                   /\ p.angular_z = x => f.angular_z = AsCoded(x, 15)

\* The owner of a robot with an OPEN socket, whose teleop with +infinity
\* and -infinity is forwarded at the bounds and whose teleop with NaN is
\* forwarded as 0.
C17_Witness ==
    \E c \in ClientIds :
       /\ ClientOpen(c) /\ Registered("fordward") /\ OwnerOf("fordward") = c
       /\ \E f \in TeleopForwarded(OnUIMessage(c, CommandFrom(NULL, Teleop(PosInf, NegInf)))) :
             f.linear_x = Num(5) /\ f.angular_z = Num(-15)
       /\ \E f \in TeleopForwarded(OnUIMessage(c, CommandFrom(NULL, Teleop(NaN, NaN)))) :
             f.linear_x = Num(0) /\ f.angular_z = Num(0)

OfflineFrame(r) == [EventFrame(r, "robot_offline") EXCEPT !.reason = "timeout"]
\* What a tick of the cleanup task does to every robot.
C18_Tick ==
    LET res == OnStaleReaper
        stale == {r \in DOMAIN robots : now - robots[r].lastSeen > robotTimeoutMs}
    IN /\ res.uiClients = uiClients
       /\ DOMAIN res.robots = DOMAIN robots \ stale
       /\ \A r \in stale :
             /\ InSeq(Effect("terminate", robots[r].ws), res.sent)
             /\ res.sockets[robots[r].ws].readyState # "OPEN"
             /\ \A d \in ClientIds :
                   Count(res.sent, Send(d, OfflineFrame(r)))
                      = IF ClientOpen(d) THEN 1 ELSE 0
       /\ \A r \in DOMAIN robots \ stale :
             /\ res.robots[r] = robots[r]
             /\ \A i \in 1..Len(res.sent) :
                   res.sent[i].op = "send" => res.sent[i].msg.robotId # r
       /\ \A s \in RobotSockets :
             (\A r \in stale : robots[r].ws # s) => res.sockets[s] = sockets[s]
\* Robot r is registered and was last seen at t.
SeenAt(r, t) == Registered(r) /\ robots[r].lastSeen = t
\* A robot does not stay registered with the same lastSeen for ever, as
\* far as the clock reaches beyond its timeout.
C18_Live ==
    \A r \in RobotIds :
       \A t \in {x \in Times : x + robotTimeoutMs < MaxNow} :
          SeenAt(r, t) ~> ~SeenAt(r, t)

\* C18: a tick of the staleness task terminates the socket of every robot
\* with now - lastSeenAt > robotTimeoutMs, removes its record and
\* broadcasts robot_offline (timeout) to every OPEN operator; it leaves
\* every other robot registered and its record as it was; and, the task and
\* the clock being fair, a robot whose lastSeenAt is not refreshed is
\* eventually removed.
C18_StaleReaping == []C18_Tick /\ C18_Live

\* Two robots, one past its timeout and one not, and an OPEN operator: the
\* task removes the first and keeps the second.
C18_Witness ==
    \E r \in DOMAIN robots, q \in DOMAIN robots, d \in ClientIds :
       /\ now - robots[r].lastSeen > robotTimeoutMs
       /\ now - robots[q].lastSeen <= robotTimeoutMs
       /\ sockets[robots[r].ws].readyState = "OPEN"
       /\ ClientOpen(d)
       /\ DOMAIN OnStaleReaper.robots = {q}
       /\ InSeq(Send(d, OfflineFrame(r)), OnStaleReaper.sent)

\* The control frames, of every action, and the command frames, of every
\* kind, that operator c may send for the robot it names by rid.
TargetedFrames(c, rid) ==
    {UIFrame("control", rid, name, action, NoPayload) :
        name \in ClientNameInputs(c), action \in ControlActions}
    \cup CommandFrames({rid}, Payloads)

\* C19: a control frame or a command frame for a RobotId that is not in the
\* registry is answered with ROBOT_OFFLINE to the requester alone; nothing
\* is forwarded or broadcast, and no robot record, lease or client record
\* changes, whatever the action or the command kind.
C19_RobotOffline ==
    \A c \in ClientIds :
       ClientOpen(c) =>
          \A rid \in RobotIdInputs :
             ~Registered(OrDefault(rid)) =>
                \A m \in TargetedFrames(c, rid) :
                   LET res == OnUIMessage(c, m)
                   IN /\ res.sent = << Send(c, ErrorFrame("ROBOT_OFFLINE")) >>
                      /\ res.robots = robots
                      /\ res.uiClients = uiClients
                      /\ res.sockets = sockets

\* No robot registered and two OPEN operators, one subscribed to the robot
\* the other forces and commands: the error goes to the sender alone.
C19_Witness ==
    \E c \in ClientIds, d \in ClientIds :
       /\ c # d /\ ClientOpen(c) /\ ClientOpen(d)
       /\ DOMAIN robots = {}
       /\ Subscribed(d, "fordward")
       /\ OnUIMessage(c, UIFrame("control", NULL, NULL, "force", NoPayload)).sent
             = << Send(c, ErrorFrame("ROBOT_OFFLINE")) >>
       /\ OnUIMessage(c, CommandFrom("fordward", Kind("stop"))).sent
             = << Send(c, ErrorFrame("ROBOT_OFFLINE")) >>

\* The OPEN operators, and those of them subscribed to robot r.
OpenOperators == {d \in ClientIds : ClientOpen(d)}
Subscribers(r) == {d \in OpenOperators : r \in uiClients[d].subscribedRobots}
\* What a frame is: the kind of an event, the type of any other frame.
Tag(f) == IF f.type = "event" THEN f.kind ELSE f.type
\* The operators a handler sends a frame of that tag about robot r.
To(res, tag, r) ==
    {res.sent[i].to :
        i \in {j \in 1..Len(res.sent) :
                 /\ res.sent[j].op = "send"
                 /\ res.sent[j].to \in ClientIds
                 /\ Tag(res.sent[j].msg) = tag
                 /\ res.sent[j].msg.robotId = r}}
\* No operator is sent the same frame twice.
NoDuplicate(res) ==
    \A i \in 1..Len(res.sent), j \in 1..Len(res.sent) :
       (i < j /\ res.sent[i].op = "send") => res.sent[i] # res.sent[j]
LeaseEvents == {"control_acquired", "control_released", "control_forced"}
\* Whatever the handler broadcasts about a robot goes to the robot's OPEN
\* subscribers, or to every OPEN operator, and to nobody else.
Scoped(res, tags) ==
    /\ NoDuplicate(res)
    /\ \A r \in RobotIds :
          /\ \A tag \in tags : To(res, tag, r) \in {{}, Subscribers(r)}
          /\ \A tag \in {"robot_online", "robot_offline"} :
                To(res, tag, r) \in {{}, OpenOperators}
\* The frames of a robot, scoped.
C20_Robot ==
    \A s \in RobotSockets :
       /\ sockets[s].readyState = "OPEN" =>
             \A m \in AllRobotFrames :
                LET res == OnRobotMessage(s, m)
                IN /\ Scoped(res, LeaseEvents \cup {"state", "command_result"})
                   /\ m.type \in {"hello", "register"} =>
                         To(res, "robot_online", OrDefault(m.robotId)) = OpenOperators
                   /\ (m.type = "telemetry" /\ TelemetryRobotId(s, m) \in DOMAIN robots) =>
                         To(res, "state", TelemetryRobotId(s, m))
                            = Subscribers(TelemetryRobotId(s, m))
                   /\ (m.type = "command_result" /\ m.robotId # NULL) =>
                         To(res, "command_result", m.robotId) = Subscribers(m.robotId)
       /\ sockets[s].readyState = "CLOSING" =>
             LET res == OnRobotClose(s)
             IN /\ Scoped(res, LeaseEvents \cup {"state", "command_result"})
                /\ \A r \in DOMAIN robots \ DOMAIN res.robots :
                      To(res, "robot_offline", r) = OpenOperators
\* The frames of an operator and of the periodic tasks, scoped.
C20_Operator ==
    /\ \A c \in ClientIds :
          /\ ClientOpen(c) =>
                \A m \in UIInputs(c) :
                   LET res == OnUIMessage(c, m)
                       r == OrDefault(m.robotId)
                   IN /\ Scoped(res, LeaseEvents \cup {"command_result"})
                      /\ (m.type = "control" /\ Registered(r)
                          /\ res.robots[r].control.ownerClientId # OwnerOf(r)) =>
                            \E tag \in LeaseEvents : To(res, tag, r) = Subscribers(r)
          /\ (c \in DOMAIN uiClients /\ ~ClientOpen(c)) =>
                LET res == OnUIClose(c)
                IN /\ Scoped(res, LeaseEvents \cup {"state", "command_result"})
                   /\ \A r \in DOMAIN robots :
                         OwnerOf(r) = c => To(res, "control_released", r) = Subscribers(r)
    /\ Scoped(OnIdleReaper, LeaseEvents \cup {"state", "command_result"})
    /\ Scoped(OnStaleReaper, LeaseEvents \cup {"state", "command_result"})
    /\ \A r \in DOMAIN robots :
          /\ OnIdleReaper.robots[r].control # robots[r].control =>
                To(OnIdleReaper, "control_released", r) = Subscribers(r)
          /\ r \notin DOMAIN OnStaleReaper.robots =>
                To(OnStaleReaper, "robot_offline", r) = OpenOperators

\* C20: the state frame of a telemetry, a command_result event and every
\* lease event (control_acquired, control_released, control_forced) about
\* robot R go to exactly the operators that are OPEN and subscribed to R
\* when the frame is emitted; robot_online and robot_offline go to every
\* OPEN operator, subscribed or not.
C20_BroadcastScoping == C20_Robot /\ C20_Operator

\* A registered robot with an OPEN socket, one OPEN operator subscribed to
\* it and one not: its telemetry reaches the first alone, the hello of
\* another robot reaches both.
C20_Witness ==
    \E c \in ClientIds, d \in ClientIds, s \in RobotSockets :
       /\ c # d /\ ClientOpen(c) /\ ClientOpen(d)
       /\ Registered("fordward") /\ robots["fordward"].ws = s
       /\ sockets[s].readyState = "OPEN"
       /\ Subscribed(c, "fordward") /\ ~Subscribed(d, "fordward")
       /\ To(OnRobotMessage(s, RobotFrame("telemetry", NULL, TelemetryNav)),
             "state", "fordward") = {c}
       /\ To(OnRobotMessage(s, RobotFrame("hello", "r2", NoTelemetry)),
             "robot_online", "r2") = {c, d}

\* The telemetry frames of every robot id and payload.
TelemetryInputs == TelemetryFrames(RobotIdInputs, Telemetries)
\* The state frames a handler sends about robot r.
StateFramesOf(res, r) ==
    {e.msg : e \in {x \in Sends(res) : x.msg.type = "state" /\ x.msg.robotId = r}}

\* C21: every state frame broadcast for robot R on a telemetry frame
\* carries the ownerClientId and ownerName of R's lease in the registry when
\* it is emitted, and the telemetry that frame stored; the owner it shows
\* is null or a client still in the client set that holds the lease, never
\* one whose release, eviction or disconnect has been handled.
C21_StateShowsLease ==
    \A s \in RobotSockets : \A m \in TelemetryInputs :
       sockets[s].readyState = "OPEN" =>
          LET res == OnRobotMessage(s, m)
              r == TelemetryRobotId(s, m)
          IN /\ \A e \in Sends(res) : e.msg.type = "state" /\ e.msg.robotId = r
             /\ Sends(res) # {} =>
                   /\ Registered(r)
                   /\ res.robots[r].control = robots[r].control
                   /\ res.robots[r].telemetry = m.telemetry
                   /\ \A f \in StateFramesOf(res, r) :
                         /\ f.ownerClientId = res.robots[r].control.ownerClientId
                         /\ f.ownerName = res.robots[r].control.ownerName
                         /\ f.telemetry = res.robots[r].telemetry
                         /\ f.ownerClientId # NULL =>
                               /\ f.ownerClientId \in DOMAIN uiClients
                               /\ f.ownerName # NULL
             /\ (Registered(r) /\ Subscribers(r) # {}) => StateFramesOf(res, r) # {}

\* A robot whose lease is owned under a custom name and that has an OPEN
\* subscriber: its telemetry is broadcast with that owner and the new
\* telemetry, which differs from the stored one.
C21_Witness ==
    \E s \in RobotSockets, c \in ClientIds :
       /\ sockets[s].readyState = "OPEN"
       /\ Registered("fordward") /\ OwnerOf("fordward") = c
       /\ robots["fordward"].control.ownerName = CustomName(c)
       /\ robots["fordward"].telemetry = TelemetryIdle
       /\ Subscribers("fordward") # {}
       /\ \E f \in StateFramesOf(OnRobotMessage(s, RobotFrame("telemetry", NULL, TelemetryNav)),
                                 "fordward") :
             f.ownerClientId = c /\ f.ownerName = CustomName(c) /\ f.telemetry = TelemetryNav

\* The owner fields a state frame shows.
Shown(control) == << control.ownerClientId, control.ownerName >>
\* The handler moves the lease of robot r, registered before and after it,
\* to another owner or owner name.
Transition(res, r) ==
    /\ r \in DOMAIN robots
    /\ r \in DOMAIN res.robots
    /\ Shown(res.robots[r].control) # Shown(robots[r].control)
\* Positions in the handler's effects of the lease events about r that
\* show the new owner to operator d, and of the state frames about r.
EventsAt(res, r, d) ==
    {i \in 1..Len(res.sent) :
        /\ res.sent[i].op = "send" /\ res.sent[i].to = d
        /\ res.sent[i].msg.kind \in LeaseEvents
        /\ res.sent[i].msg.robotId = r
        /\ res.sent[i].msg.ownerClientId = res.robots[r].control.ownerClientId}
StatesAt(res, r) ==
    {i \in 1..Len(res.sent) :
        /\ res.sent[i].op = "send"
        /\ res.sent[i].msg.type = "state"
        /\ res.sent[i].msg.robotId = r}
\* The handler emits the lease event of every transition it makes to every
\* subscriber, and no state frame about that robot before it (none at all).
EventFirst(res) ==
    \A r \in RobotIds :
       Transition(res, r) =>
          /\ \A d \in Subscribers(r) :
                /\ EventsAt(res, r, d) # {}
                /\ \A i \in EventsAt(res, r, d), j \in StatesAt(res, r) : i < j
          /\ StatesAt(res, r) = {}

\* C22: every lease transition of robot R made by a control action, the
\* idle task or the owner's disconnect is announced by its lease event
\* (control_acquired, control_forced, control_released) in the handler that
\* makes it, before any state frame about R that shows the new lease: such
\* state frames come from telemetry handled afterwards, which shows the
\* lease as that handler left it and does not change it.
C22_EventBeforeState ==
    /\ \A c \in ClientIds :
          /\ ClientOpen(c) => \A m \in UIInputs(c) : EventFirst(OnUIMessage(c, m))
          /\ (c \in DOMAIN uiClients /\ ~ClientOpen(c)) => EventFirst(OnUIClose(c))
    /\ EventFirst(OnIdleReaper)
    /\ \A s \in RobotSockets : \A m \in TelemetryInputs :
          sockets[s].readyState = "OPEN" =>
             \A r \in DOMAIN robots :
                /\ ~Transition(OnRobotMessage(s, m), r)
                /\ \A f \in StateFramesOf(OnRobotMessage(s, m), r) :
                      << f.ownerClientId, f.ownerName >> = Shown(robots[r].control)

\* The owner of a robot with an OPEN subscriber other than itself: its
\* release is announced to the subscriber, and until then the robot's
\* telemetry shows the owner.
C22_Witness ==
    \E s \in RobotSockets, c \in ClientIds, d \in ClientIds :
       /\ c # d /\ ClientOpen(c) /\ sockets[s].readyState = "OPEN"
       /\ Registered("fordward") /\ OwnerOf("fordward") = c
       /\ d \in Subscribers("fordward")
       /\ LET res == OnUIMessage(c, UIFrame("control", NULL, NULL, "release", NoPayload))
          IN /\ Transition(res, "fordward")
             /\ EventsAt(res, "fordward", d) # {}
       /\ \E f \in StateFramesOf(OnRobotMessage(s, RobotFrame("telemetry", NULL, TelemetryNav)),
                                 "fordward") : f.ownerClientId = c

\* The command passes the existence and the authorisation step for
\* operator c, and the switch on kind yields a command for the robot.
Passes(c, rid, p) ==
    /\ Registered(OrDefault(rid))
    /\ (p.kind \in motionCommands => OwnerOf(OrDefault(rid)) = c)
    /\ Validate(p, robots[OrDefault(rid)]).ok

\* C23: a command that passes existence, authorisation and validation is
\* sent to the socket of the robot's record, once, if that socket is OPEN
\* when the frame is handled; if it is not OPEN the command is dropped:
\* nothing is sent to any robot socket and no frame at all, so no error,
\* goes to the operator.
C23_ForwardOnlyIfOpen ==
    \A c \in ClientIds, rid \in RobotIdInputs, p \in Payloads :
       (ClientOpen(c) /\ Passes(c, rid, p)) =>
          LET r == OrDefault(rid)
              res == OnUIMessage(c, CommandFrom(rid, p))
          IN /\ res.sockets = sockets
             /\ res.uiClients = uiClients
             /\ IF sockets[robots[r].ws].readyState = "OPEN"
                THEN /\ Len(res.sent) = 1
                     /\ res.sent[1].op = "send"
                     /\ res.sent[1].to = robots[r].ws
                     /\ res.sent[1].msg = Validate(p, robots[r]).frame
                ELSE res.sent = << >>

\* A registered robot whose socket has left OPEN, its close event still to
\* come, and the OPEN owner of its lease: the owner's teleop and stop are
\* dropped in silence.
C23_Witness ==
    \E c \in ClientIds :
       /\ ClientOpen(c)
       /\ Registered("fordward") /\ OwnerOf("fordward") = c
       /\ sockets[robots["fordward"].ws].readyState = "CLOSING"
       /\ Passes(c, NULL, Teleop(Num(3), Num(3)))
       /\ OnUIMessage(c, CommandFrom(NULL, Teleop(Num(3), Num(3)))).sent = << >>
       /\ OnUIMessage(c, CommandFrom(NULL, Kind("stop"))).sent = << >>

\* The poiIds an owner sends: an id, the name of an entry that has an id,
\* the name of an entry that has none, and one no entry has.
PoiInputs == {"p1", "Dock", "Lab", "p9"}
\* The ids and names of a POI list.
Named(pois) ==
    ({pois[i].id : i \in 1..Len(pois)} \cup {pois[i].name : i \in 1..Len(pois)}) \ {NULL}
GoToPoi(poiId) == [CommandFrame("go_to_poi") EXCEPT !.arg = poiId]

\* C24: a goto_poi with a non-empty poiId from the lease owner of a
\* registered robot passes validation if the robot's last-known POI list is
\* empty (also when no telemetry is stored yet) or the poiId is the id or
\* the name of one of its entries: it is then sent to the robot's socket as
\* go_to_poi, if that socket is OPEN, and the owner gets no frame.
\* Otherwise the owner alone gets UNKNOWN_POI with one catalogue element
\* per known POI, its id or else its name, and nothing is forwarded.
C24_GotoPoi ==
    \A c \in ClientIds, rid \in RobotIdInputs, poiId \in PoiInputs :
       LET r == OrDefault(rid)
           res == OnUIMessage(c, CommandFrom(rid, GotoPoi(poiId)))
       IN (ClientOpen(c) /\ Registered(r) /\ OwnerOf(r) = c) =>
             LET pois == robots[r].telemetry.pois
                 open == sockets[robots[r].ws].readyState = "OPEN"
             IN IF pois = << >> \/ poiId \in Named(pois)
                THEN res.sent = IF open THEN << Send(robots[r].ws, GoToPoi(poiId)) >>
                                ELSE << >>
                ELSE /\ Len(res.sent) = 1
                     /\ res.sent[1].op = "send"
                     /\ res.sent[1].to = c
                     /\ res.sent[1].msg.code = "UNKNOWN_POI"
                     /\ Len(res.sent[1].msg.availablePois) = Len(pois)
                     /\ \A i \in 1..Len(pois) :
                           res.sent[1].msg.availablePois[i]
                              = IF pois[i].id # NULL THEN pois[i].id ELSE pois[i].name

\* The OPEN owner of a robot with an OPEN socket and a POI list of two
\* entries: a goto_poi naming an entry is forwarded, one naming none is
\* answered with the catalogue of two.
C24_Witness ==
    \E c \in ClientIds :
       /\ ClientOpen(c)
       /\ Registered("fordward") /\ OwnerOf("fordward") = c
       /\ sockets[robots["fordward"].ws].readyState = "OPEN"
       /\ Len(robots["fordward"].telemetry.pois) = 2
       /\ OnUIMessage(c, CommandFrom(NULL, GotoPoi("Lab"))).sent
             = << Send(robots["fordward"].ws, GoToPoi("Lab")) >>
       /\ \E f \in SentTo(OnUIMessage(c, CommandFrom(NULL, GotoPoi("p9"))), c) :
             f.code = "UNKNOWN_POI" /\ f.availablePois = << "p1", "Lab" >>

\* C25: no two records of the registry reference the same robot socket,
\* also after one socket has sent hello/register frames naming two
\* different RobotIds.
C25_SocketExclusive ==
    \A r1 \in DOMAIN robots, r2 \in DOMAIN robots :
       r1 # r2 => robots[r1].ws # robots[r2].ws

\* The four fields of a lease are all null, or all non-null.
Unowned(control) == control = NoControl
Owned(control) ==
    /\ control.ownerClientId # NULL
    /\ control.ownerName # NULL
    /\ control.since # NoTime
    /\ control.lastCommandAt # NoTime

\* C26: every registered robot has a lease whose four fields
\* (ownerClientId, ownerName, since, lastCommandAt) are all null or all
\* non-null, whatever requests, releases, forces, commands, disconnects,
\* periodic tasks and robot frames have been handled.
C26_LeaseWellFormed ==
    \A r \in DOMAIN robots :
       /\ DOMAIN robots[r].control
             = {"ownerClientId", "ownerName", "since", "lastCommandAt"}
       /\ Unowned(robots[r].control) \/ Owned(robots[r].control)

\* An owned lease that a command or a repeated request has refreshed after
\* the clock moved: lastCommandAt is later than since, and all four fields
\* are set.
C26_Witness ==
    \E r \in DOMAIN robots :
       /\ Owned(robots[r].control)
       /\ robots[r].control.lastCommandAt > robots[r].control.since

\* Motion commands that the switch on kind would reject.
InvalidMotion == {GotoPoi(NULL), GotoPoi("p9"), Kind("dock"), Kind("navigate")}

\* C27: for motion kinds the existence check comes first, the control lock
\* check second and the switch on kind last: for a registered robot, a
\* goto_poi without poiId, a goto_poi with an unknown POI, a dock and a
\* navigate from a client that does not own the lease are answered with
\* NO_CONTROL alone; dock and navigate from the lease owner are answered
\* with UNKNOWN_COMMAND alone and nothing is sent to a robot.  For an
\* unregistered robot all of them are answered with ROBOT_OFFLINE.
C27_PipelineOrder ==
    \A c \in ClientIds, rid \in RobotIdInputs, p \in InvalidMotion :
       ClientOpen(c) =>
          LET r == OrDefault(rid)
              res == OnUIMessage(c, CommandFrom(rid, p))
          IN /\ ~Registered(r) => res.sent = << Send(c, ErrorFrame("ROBOT_OFFLINE")) >>
             /\ (Registered(r) /\ OwnerOf(r) # c) =>
                   res.sent = << Send(c, ErrorFrame("NO_CONTROL")) >>
             /\ (Registered(r) /\ OwnerOf(r) = c /\ p.kind \in {"dock", "navigate"}) =>
                   /\ res.sent = << Send(c, ErrorFrame("UNKNOWN_COMMAND")) >>
                   /\ ForwardedTo(res) = {}

\* A robot with a POI list, the owner of its lease and another OPEN
\* operator: the other's goto_poi for an unknown POI and its dock are
\* answered with NO_CONTROL, the owner's dock with UNKNOWN_COMMAND.
C27_Witness ==
    \E c \in ClientIds, d \in ClientIds :
       /\ c # d /\ ClientOpen(c) /\ ClientOpen(d)
       /\ Registered("fordward") /\ OwnerOf("fordward") = c
       /\ Len(robots["fordward"].telemetry.pois) > 0
       /\ OnUIMessage(d, CommandFrom(NULL, GotoPoi("p9"))).sent
             = << Send(d, ErrorFrame("NO_CONTROL")) >>
       /\ OnUIMessage(d, CommandFrom(NULL, Kind("dock"))).sent
             = << Send(d, ErrorFrame("NO_CONTROL")) >>
       /\ OnUIMessage(c, CommandFrom(NULL, Kind("dock"))).sent
             = << Send(c, ErrorFrame("UNKNOWN_COMMAND")) >>

\* The valid commands of the kinds that are no motion kinds, each with the
\* command the robot is to receive.
Sanitised(command, arg) == [CommandFrame(command) EXCEPT !.arg = arg]
NonMotion ==
    {<< Kind(k), CommandFrame(k) >> : k \in {"stop", "cancel_nav", "start_slam", "restart"}}
    \cup {<< SetMode(mode), Sanitised("set_mode", mode) >> : mode \in validModes}
    \cup {<< MapCommand("load_map", "lab"), Sanitised("load_map", "lab") >>,
          << MapCommand("save_map", "lab"), Sanitised("stop_slam", "lab") >>}

\* C28: a valid stop, set_mode, load_map, save_map, cancel_nav, start_slam
\* or restart from any OPEN operator for a registered robot whose socket is
\* OPEN is forwarded to that socket, whether the lease is unowned, owned by
\* the sender or owned by another operator, and handling it changes
\* nothing: the lease, its owner and lastCommandAt included.
C28_NonMotionBypassesLease ==
    \A c \in ClientIds, rid \in RobotIdInputs, p \in NonMotion :
       LET r == OrDefault(rid)
           res == OnUIMessage(c, CommandFrom(rid, p[1]))
       IN (ClientOpen(c) /\ Registered(r) /\ sockets[robots[r].ws].readyState = "OPEN") =>
             /\ res.sent = << Send(robots[r].ws, p[2]) >>
             /\ res.robots = robots
             /\ res.uiClients = uiClients
             /\ res.sockets = sockets

\* A robot with an OPEN socket whose lease another operator owns, taken
\* before the clock moved: the stop and the save_map of an operator that
\* does not own the lease are forwarded.
C28_Witness ==
    \E c \in ClientIds, d \in ClientIds :
       /\ c # d /\ ClientOpen(c)
       /\ Registered("fordward") /\ OwnerOf("fordward") = d
       /\ robots["fordward"].control.lastCommandAt < now
       /\ sockets[robots["fordward"].ws].readyState = "OPEN"
       /\ OnUIMessage(c, CommandFrom(NULL, Kind("stop"))).sent
             = << Send(robots["fordward"].ws, CommandFrame("stop")) >>
       /\ OnUIMessage(c, CommandFrom(NULL, MapCommand("save_map", "lab"))).sent
             = << Send(robots["fordward"].ws, Sanitised("stop_slam", "lab")) >>

\* The handler takes the lease of robot r, registered before and after it,
\* from its owner.
LosesLease(res, r) ==
    /\ r \in DOMAIN robots
    /\ r \in DOMAIN res.robots
    /\ OwnerOf(r) # NULL
    /\ res.robots[r].control.ownerClientId # OwnerOf(r)
\* The handler sends control_released or control_forced about r to every
\* OPEN subscriber of r.
Announced(res, r) ==
    \A d \in Subscribers(r) :
       \E e \in Sends(res) :
          /\ e.to = d
          /\ e.msg.robotId = r
          /\ e.msg.kind \in {"control_released", "control_forced"}

\* C29: every handler that takes the lease of a robot, registered before
\* and after it, from its owner (to nobody or to another client) broadcasts
\* control_released or control_forced for the robot to its subscribers:
\* release, force, the owner's disconnect, the idle task, and a
\* hello/register frame that registers the robot again.
C29_LossAnnounced ==
    /\ \A c \in ClientIds :
          /\ ClientOpen(c) =>
                \A m \in UIInputs(c) : \A r \in RobotIds :
                   LosesLease(OnUIMessage(c, m), r) => Announced(OnUIMessage(c, m), r)
          /\ (c \in DOMAIN uiClients /\ ~ClientOpen(c)) =>
                \A r \in RobotIds : LosesLease(OnUIClose(c), r) => Announced(OnUIClose(c), r)
    /\ \A r \in RobotIds :
          /\ LosesLease(OnIdleReaper, r) => Announced(OnIdleReaper, r)
          /\ LosesLease(OnStaleReaper, r) => Announced(OnStaleReaper, r)
    /\ \A s \in RobotSockets : \A m \in AllRobotFrames : \A r \in RobotIds :
          sockets[s].readyState = "OPEN" =>
             (LosesLease(OnRobotMessage(s, m), r) => Announced(OnRobotMessage(s, m), r))

\* C30: a second hello/register frame for its own RobotId from a robot on
\* its still OPEN socket does not terminate that socket: after the frame
\* the socket is OPEN, so no close event follows that would remove the
\* record, and the registry holds the record of that RobotId bound to it.
C30_SelfHelloStaysRegistered ==
    \A s \in RobotSockets : \A m \in HelloFrames(RobotIdInputs) :
       LET r == OrDefault(m.robotId)
           res == OnRobotMessage(s, m)
       IN (sockets[s].readyState = "OPEN" /\ Registered(r) /\ robots[r].ws = s) =>
             /\ \A i \in 1..Len(res.sent) : res.sent[i] # Effect("terminate", s)
             /\ res.sockets[s].readyState = "OPEN"
             /\ r \in DOMAIN res.robots
             /\ res.robots[r].ws = s

\* The handler leaves the record of robot r as it is: present, with the
\* same telemetry and lastSeen.
Untouched(res, r) ==
    /\ r \in DOMAIN res.robots
    /\ res.robots[r].telemetry = robots[r].telemetry
    /\ res.robots[r].lastSeen = robots[r].lastSeen

\* C31: a telemetry frame on a robot socket, whatever robotId it names, and
\* the close event of a robot socket leave the record of every RobotId that
\* is bound to another socket untouched: its telemetry is not overwritten,
\* its lastSeen not refreshed, the record not removed.
C31_RecordOwnedBySocket ==
    \A s \in RobotSockets : \A r \in DOMAIN robots :
       robots[r].ws # s =>
          /\ sockets[s].readyState = "OPEN" =>
                \A m \in TelemetryInputs : Untouched(OnRobotMessage(s, m), r)
          /\ sockets[s].readyState = "CLOSING" => Untouched(OnRobotClose(s), r)

\* C32: a control request from client c that moves the lease of a robot
\* from unowned to owned by c sends at least one frame, the control_acquired
\* event about the robot, to c, whether or not c is subscribed to the
\* robot.
C32_GrantTold ==
    \A c \in ClientIds :
       ClientOpen(c) =>
          \A m \in ControlInputs(c, "request") :
             LET r == OrDefault(m.robotId)
                 res == OnUIMessage(c, m)
             IN (Registered(r) /\ OwnerOf(r) = NULL
                 /\ res.robots[r].control.ownerClientId = c) =>
                   \E f \in SentTo(res, c) :
                      f.kind = "control_acquired" /\ f.robotId = r
====
